---------------------------- MODULE Spec2Model ----------------------------
(***************************************************************************)
(* Broadcast dispatcher of the scheduler bot: the adaptive rate limiter    *)
(* (core/rate_limiter.py), the failure tracker with its time-boxed skip    *)
(* list (core/retry_system.py) and the parallel sender (core/sender.py).   *)
(*                                                                         *)
(* Scheduling is asyncio's: one task runs at a time and keeps the          *)
(* processor until it reaches a real suspension point (a contended lock,   *)
(* asyncio.sleep, the network call, asyncio.gather).  `cpu` names the task *)
(* that is running; the clock and the environment move only while no task  *)
(* runs.                                                                   *)
(*                                                                         *)
(* Units.  Time is counted in ticks of 1/TicksPerSecond second, rates in   *)
(* 1/RateScale message per second, tokens in 1/One token, so that every    *)
(* product and quotient of the limiter is an exact integer for the         *)
(* constructor arguments used below.                                       *)
(***************************************************************************)
EXTENDS Integers, Sequences, FiniteSets, TLC

VARIABLES
    \* AdaptiveRateLimiter
    base_global_rate, per_chat_rate, burst_allowance,
    global_tokens, global_last_update, global_lock,
    chat_tokens, chat_locks,
    current_rate, flood_detected, last_flood_time, success_count,
    \* SmartRetrySystem
    skip_list, failure_history, consecutive_failures,
    \* ParallelSender
    admin_notified, notifications,
    \* one send_post_to_channel / acquire call per task
    pc, tch, tpost, res, wake, cpu,
    \* send_batch_to_all_channels
    bpc, bi, start_time, failed_sends, messages_sent, ri, retry_success, result, posts_table, posts,
    \* environment
    now, ticks, stopped, raisable,
    \* history of what was done (read by the properties only)
    mainRes, retryRes, sendCalls, platformCalls, grants, slept, ncalls, spaced, lastCall, chatCalls,
    okSinceFlood, nfloods, noted,
    \* history of the direct calls of the tracker (read by the properties only)
    lastOp,
    \* process_deferred_retries: its local variables
    expired_channels, sci, failed_posts, spi

rlCfg    == <<base_global_rate, per_chat_rate, burst_allowance>>
rlGlobal == <<global_tokens, global_last_update, global_lock>>
rlChat   == <<chat_tokens, chat_locks>>
rlAdapt  == <<current_rate, flood_detected, last_flood_time, success_count>>
rlVars   == <<rlCfg, rlGlobal, rlChat, rlAdapt>>
trVars   == <<skip_list, failure_history, consecutive_failures>>
sndVars  == <<admin_notified, notifications>>
taskVars == <<pc, tch, tpost, res, wake, cpu>>
batVars  == <<bpc, bi, start_time, failed_sends, messages_sent, ri, retry_success, result, posts_table, posts>>
envVars  == <<now, ticks, stopped, raisable>>
histSend == <<mainRes, retryRes, sendCalls, platformCalls>>
histRL   == <<grants, slept, ncalls, spaced, lastCall, chatCalls>>
histAdapt == <<okSinceFlood, nfloods>>
histTrack == <<lastOp>>
swVars   == <<expired_channels, sci, failed_posts, spi>>
vars     == <<rlVars, trVars, sndVars, taskVars, batVars, envVars, histSend, histRL, histAdapt, noted, histTrack, swVars>>

---------------------------------------------------------------------------
(* Bounds of the model. *)

\* clock advances in one behaviour
MaxTicks == 2
\* direct Acquire calls in one behaviour of the limiter's specification
MaxCalls == 4
\* report_flood_control calls in one behaviour of the adaptive rate's specification
MaxFloods == 3
\* the value success_count is allowed to reach there
MaxSuccessCount == 51
\* direct send_post_to_channel calls in one behaviour of the sender's specification
MaxSends == 2
\* record_failure calls in one behaviour of the tracker's specification
MaxFailures == 2
\* record_failure calls in one behaviour of the specification of a long streak
MaxStreak == 5

---------------------------------------------------------------------------
(* Units and small helpers. *)

TicksPerSecond == 10
RateScale == 100
\* the 1.0 token of the buckets, in token units
One == 6000

Min(a, b) == IF a < b THEN a ELSE b
Max(a, b) == IF a > b THEN a ELSE b
CeilDiv(a, b) == (a + b - 1) \div b

NoTask == "none"
NoPost == 0
\* Python's None for a time stamp
NoTime == 0 - 1

\* Python dict operations on functions with a growing domain
DictSet(d, k, v) == [x \in (DOMAIN d) \cup {k} |-> IF x = k THEN v ELSE d[x]]
DictDel(d, k) == [x \in (DOMAIN d) \ {k} |-> d[x]]
DictGet(d, k, default) == IF k \in DOMAIN d THEN d[k] ELSE default
EmptyDict == [x \in {} |-> 0]

Channels == {"A", "B"}
channel_ids == <<"A", "B">>
GatherTasks == <<"g1", "g2">>
BatchTask == "batch"
Tasks == {"g1", "g2", "batch"}

---------------------------------------------------------------------------
(* AdaptiveRateLimiter: the token buckets. *)

\* token units refilled per tick at a rate of 1/RateScale per second, and at 1 per minute
GlobalUnit == One \div (RateScale * TicksPerSecond)
ChatUnit == One \div (60 * TicksPerSecond)

\* variant: the global refill divides by 60 like the per-chat one
GlobalRefillPerMinute(time_passed, rate) == (time_passed * rate * GlobalUnit) \div 60

\* time_passed * self.current_rate, in token units
GlobalRefill(time_passed, rate) == time_passed * rate * GlobalUnit

\* (1.0 - tokens) / self.current_rate, in ticks (asyncio.sleep sleeps at least that long)
GlobalWait(tokens, rate) == CeilDiv(One - tokens, rate * GlobalUnit)

\* time_passed * (self.per_chat_rate / 60.0), in token units
ChatRefill(time_passed, rate) == time_passed * rate * ChatUnit

\* (1.0 - tokens) / (self.per_chat_rate / 60.0), in ticks
ChatWait(tokens, rate) == CeilDiv(One - tokens, rate * ChatUnit)

\* if tokens > capacity: tokens = capacity
Clamp(tokens, capacity) == IF tokens > capacity THEN capacity ELSE tokens

FreeLock == [holder |-> NoTask, waiters |-> <<>>]

\* variant: the lock lets every task in
LockAlwaysFree(l) == TRUE

\* asyncio.Lock.acquire without waiting: the lock is free and nobody queues for it
LockIsFree(l) == l.holder = NoTask /\ l.waiters = <<>>

\* variant: leaving the async with block keeps the lock
LockKept(l) == l

\* variant: the lock is not handed over when a task waits for it
ReleasedUnlessAwaited(l) == IF l.waiters = <<>> THEN [l EXCEPT !.holder = NoTask] ELSE l

\* asyncio.Lock.release: the first waiter is woken and takes the lock when it runs
Released(l) == [l EXCEPT !.holder = NoTask]

\* where a task goes when acquire() returns: back to its caller
AfterAcquire(t) == IF tpost[t] = NoPost THEN "idle" ELSE "call"
CpuAfterAcquire(t) == IF tpost[t] = NoPost THEN NoTask ELSE t

\* async with self.global_lock: entered at once, or the task queues
GEnter(t) ==
    /\ pc[t] = "g_enter" /\ cpu = t
    /\ IF LockIsFree(global_lock)
       THEN /\ global_lock' = [global_lock EXCEPT !.holder = t]
            /\ pc' = [pc EXCEPT ![t] = "g_body"]
            /\ cpu' = t
       ELSE /\ global_lock' = [global_lock EXCEPT !.waiters = Append(@, t)]
            /\ pc' = [pc EXCEPT ![t] = "g_wait"]
            /\ cpu' = NoTask
    /\ UNCHANGED <<rlCfg, global_tokens, global_last_update, rlChat, rlAdapt>>
    /\ UNCHANGED <<trVars, sndVars, tch, tpost, res, wake, batVars, envVars, histSend, histRL>>
    /\ UNCHANGED <<histAdapt, noted, histTrack, swVars>>

\* the first waiter takes the released global lock
GResume(t) ==
    /\ pc[t] = "g_wait" /\ cpu = NoTask
    /\ global_lock.holder = NoTask
    /\ global_lock.waiters # <<>> /\ Head(global_lock.waiters) = t
    /\ global_lock' = [holder |-> t, waiters |-> Tail(global_lock.waiters)]
    /\ pc' = [pc EXCEPT ![t] = "g_body"]
    /\ cpu' = t
    /\ UNCHANGED <<rlCfg, global_tokens, global_last_update, rlChat, rlAdapt>>
    /\ UNCHANGED <<trVars, sndVars, tch, tpost, res, wake, batVars, envVars, histSend, histRL>>
    /\ UNCHANGED <<histAdapt, noted, histTrack, swVars>>

\* the global bucket after the refill of acquire_global
GlobalRefilled ==
    Clamp(global_tokens + GlobalRefill(now - global_last_update, current_rate),
          burst_allowance * One)

\* the body of acquire_global up to its sleep or its return
GBody(t) ==
    /\ pc[t] = "g_body" /\ cpu = t
    /\ global_last_update' = now
    /\ IF GlobalRefilled < One
       THEN /\ global_tokens' = GlobalRefilled
            /\ wake' = [wake EXCEPT ![t] = now + GlobalWait(GlobalRefilled, current_rate)]
            /\ pc' = [pc EXCEPT ![t] = "g_sleep"]
            /\ cpu' = NoTask
            /\ slept' = [slept EXCEPT ![t] = TRUE]
            /\ UNCHANGED <<global_lock, grants>>
       ELSE /\ global_tokens' = GlobalRefilled - One
            /\ global_lock' = Released(global_lock)
            /\ pc' = [pc EXCEPT ![t] = "c_enter"]
            /\ cpu' = t
            /\ grants' = Append(grants, now)
            /\ UNCHANGED <<wake, slept>>
    /\ UNCHANGED <<rlCfg, rlChat, rlAdapt>>
    /\ UNCHANGED <<trVars, sndVars, tch, tpost, res, batVars, envVars, histSend, ncalls, spaced, lastCall, chatCalls>>
    /\ UNCHANGED <<histAdapt, noted, histTrack, swVars>>

\* acquire_global after its sleep: the tokens are set to 0 and the lock is released
GWake(t) ==
    /\ pc[t] = "g_sleep" /\ cpu = NoTask
    /\ now >= wake[t]
    /\ global_tokens' = 0
    /\ global_lock' = Released(global_lock)
    /\ pc' = [pc EXCEPT ![t] = "c_enter"]
    /\ cpu' = t
    /\ grants' = Append(grants, now)
    /\ UNCHANGED <<rlCfg, global_last_update, rlChat, rlAdapt>>
    /\ UNCHANGED <<trVars, sndVars, tch, tpost, res, wake, batVars, envVars, histSend, slept, ncalls, spaced, lastCall, chatCalls>>
    /\ UNCHANGED <<histAdapt, noted, histTrack, swVars>>

\* self.chat_locks[chat_id], created on first use
ChatLock(c) == DictGet(chat_locks, c, FreeLock)

\* async with self.chat_locks[chat_id]
CEnter(t) ==
    /\ pc[t] = "c_enter" /\ cpu = t
    /\ IF LockIsFree(ChatLock(tch[t]))
       THEN /\ chat_locks' = DictSet(chat_locks, tch[t], [ChatLock(tch[t]) EXCEPT !.holder = t])
            /\ pc' = [pc EXCEPT ![t] = "c_body"]
            /\ cpu' = t
       ELSE /\ chat_locks' = DictSet(chat_locks, tch[t],
                                     [ChatLock(tch[t]) EXCEPT !.waiters = Append(@, t)])
            /\ pc' = [pc EXCEPT ![t] = "c_wait"]
            /\ cpu' = NoTask
    /\ UNCHANGED <<rlCfg, rlGlobal, chat_tokens, rlAdapt>>
    /\ UNCHANGED <<trVars, sndVars, tch, tpost, res, wake, batVars, envVars, histSend, histRL>>
    /\ UNCHANGED <<histAdapt, noted, histTrack, swVars>>

\* the first waiter takes the released lock of its destination
CResume(t) ==
    /\ pc[t] = "c_wait" /\ cpu = NoTask
    /\ chat_locks[tch[t]].holder = NoTask
    /\ chat_locks[tch[t]].waiters # <<>> /\ Head(chat_locks[tch[t]].waiters) = t
    /\ chat_locks' = [chat_locks EXCEPT ![tch[t]] =
                         [holder |-> t, waiters |-> Tail(chat_locks[tch[t]].waiters)]]
    /\ pc' = [pc EXCEPT ![t] = "c_body"]
    /\ cpu' = t
    /\ UNCHANGED <<rlCfg, rlGlobal, chat_tokens, rlAdapt>>
    /\ UNCHANGED <<trVars, sndVars, tch, tpost, res, wake, batVars, envVars, histSend, histRL>>
    /\ UNCHANGED <<histAdapt, noted, histTrack, swVars>>

\* variant: a destination seen for the first time gets an empty bucket
ChatBucketEmptyAtFirst(c) == DictGet(chat_tokens, c, [tokens |-> 0, last_update |-> now])

\* self.chat_tokens[chat_id]: a destination seen for the first time gets (per_chat_rate, now)
ChatBucket(c) == DictGet(chat_tokens, c, [tokens |-> per_chat_rate * One, last_update |-> now])

\* the destination's bucket after the refill of acquire_chat
ChatRefilled(c) ==
    Clamp(ChatBucket(c).tokens + ChatRefill(now - ChatBucket(c).last_update, per_chat_rate),
          per_chat_rate * One)

\* the body of acquire_chat up to its sleep or its return
CBody(t) ==
    /\ pc[t] = "c_body" /\ cpu = t
    /\ IF ChatRefilled(tch[t]) < One
       THEN /\ chat_tokens' = DictSet(chat_tokens, tch[t], ChatBucket(tch[t]))
            /\ wake' = [wake EXCEPT ![t] = now + ChatWait(ChatRefilled(tch[t]), per_chat_rate)]
            /\ pc' = [pc EXCEPT ![t] = "c_sleep"]
            /\ cpu' = NoTask
            /\ slept' = [slept EXCEPT ![t] = TRUE]
            /\ UNCHANGED chat_locks
       ELSE /\ chat_tokens' = DictSet(chat_tokens, tch[t],
                                      [tokens |-> ChatRefilled(tch[t]) - One, last_update |-> now])
            /\ chat_locks' = [chat_locks EXCEPT ![tch[t]] = Released(@)]
            /\ pc' = [pc EXCEPT ![t] = AfterAcquire(t)]
            /\ cpu' = CpuAfterAcquire(t)
            /\ UNCHANGED <<wake, slept>>
    /\ UNCHANGED <<rlCfg, rlGlobal, rlAdapt>>
    /\ UNCHANGED <<trVars, sndVars, tch, tpost, res, batVars, envVars, histSend, grants, ncalls, spaced, lastCall, chatCalls>>
    /\ UNCHANGED <<histAdapt, noted, histTrack, swVars>>

\* acquire_chat after its sleep: (0.0, now) is stored and the lock is released
CWake(t) ==
    /\ pc[t] = "c_sleep" /\ cpu = NoTask
    /\ now >= wake[t]
    /\ chat_tokens' = DictSet(chat_tokens, tch[t], [tokens |-> 0, last_update |-> now])
    /\ chat_locks' = [chat_locks EXCEPT ![tch[t]] = Released(@)]
    /\ pc' = [pc EXCEPT ![t] = AfterAcquire(t)]
    /\ cpu' = CpuAfterAcquire(t)
    /\ UNCHANGED <<rlCfg, rlGlobal, rlAdapt>>
    /\ UNCHANGED <<trVars, sndVars, tch, tpost, res, wake, batVars, envVars, histSend, histRL>>
    /\ UNCHANGED <<histAdapt, noted, histTrack, swVars>>

\* acquire(chat_id): one step of the task that is inside it
AcquireStep(t) ==
    \/ GEnter(t)
    \/ GResume(t)
    \/ GBody(t)
    \/ GWake(t)
    \/ CEnter(t)
    \/ CResume(t)
    \/ CBody(t)
    \/ CWake(t)


---------------------------------------------------------------------------
(* AdaptiveRateLimiter: the adaptive rate. *)

\* variant: the damping without the floor
DampedRateNoFloor(rate) == (rate * 7) \div 10

\* max(self.current_rate * 0.7, 10)
DampedRate(rate) == Max((rate * 7) \div 10, 10 * RateScale)

\* min(self.current_rate * 1.1, self.base_global_rate)
RecoveredRate(rate, base) == Min((rate * 11) \div 10, base)

\* report_success raises the rate: flood seen, 50 successes, more than 60 s since the flood
\* (`self.last_flood_time and ...` is false for None and for 0.0)
RecoveryDue(count) ==
    /\ flood_detected
    /\ count >= 50
    /\ last_flood_time # NoTime /\ last_flood_time # 0
    /\ (now - last_flood_time) > 60 * TicksPerSecond

\* report_flood_control
report_flood_control ==
    /\ flood_detected' = TRUE
    /\ last_flood_time' = now
    /\ current_rate' = DampedRate(current_rate)
    /\ nfloods' = nfloods + 1
    /\ okSinceFlood' = 0

\* report_success
report_success ==
    /\ IF RecoveryDue(success_count + 1)
       THEN /\ current_rate' = RecoveredRate(current_rate, base_global_rate)
            /\ success_count' = 0
            /\ flood_detected' = ~(RecoveredRate(current_rate, base_global_rate) >= base_global_rate)
       ELSE /\ success_count' = success_count + 1
            /\ UNCHANGED <<current_rate, flood_detected>>
    /\ okSinceFlood' = Min(okSinceFlood + 1, 50)
    /\ UNCHANGED <<last_flood_time, nfloods>>

---------------------------------------------------------------------------
(* SmartRetrySystem. *)

skip_duration_minutes == 5
alert_threshold == 5

\* the texts of the platform's errors, as the phrases they are made of
ErrForbidden == <<"Forbidden:", "bot was kicked", "from the channel">>
ErrFlood     == <<"Flood", "control exceeded">>
ErrTimedOut  == <<"Timed out">>
ErrTooMany   == <<"Too Many Requests">>
ErrRetryAfter == <<"Retry after", "5 seconds">>
\* a text that carries an unreachable-destination marker and a flood marker
ErrForbiddenFlood == <<"Forbidden:", "Flood", "control exceeded">>
TelegramErrors == {ErrForbidden, ErrFlood, ErrTimedOut, ErrTooMany, ErrRetryAfter, ErrForbiddenFlood}

\* str.lower() on one phrase
Lower(w) ==
    CASE w = "Forbidden:" -> "forbidden:"
      [] w = "Forbidden"  -> "forbidden"
      [] w = "Flood"      -> "flood"
      [] w = "FLOOD"      -> "flood"
      [] w = "Timed out"  -> "timed out"
      [] w = "Too Many Requests" -> "too many requests"
      [] w = "Retry after" -> "retry after"
      [] w = "Chat not found" -> "chat not found"
      [] OTHER -> w

\* the phrases a marker occurs in (substring test on lower-cased phrases)
OccursIn(marker, phrase) ==
    \/ phrase = marker
    \/ marker = "forbidden" /\ phrase = "forbidden:"

\* `marker in str(error).lower()`
Contains(error, marker) == \E i \in DOMAIN error : OccursIn(marker, Lower(error[i]))

PermanentMarkers == {"bot was kicked", "bot was blocked", "chat not found",
                     "user is deactivated", "channel is private",
                     "bot is not a member", "forbidden"}
RateLimitMarkers == {"flood", "too many requests", "retry after"}

\* variant: the rate-limit markers are looked for first
classify_rate_limit_first(error) ==
    IF \E x \in RateLimitMarkers : Contains(error, x) THEN "rate_limit"
    ELSE IF \E x \in PermanentMarkers : Contains(error, x) THEN "permanent"
    ELSE "temporary"

classify_error(error) ==
    IF \E x \in PermanentMarkers : Contains(error, x) THEN "permanent"
    ELSE IF \E x \in RateLimitMarkers : Contains(error, x) THEN "rate_limit"
    ELSE "temporary"

\* variant: the failure is not recorded
HistoryNotAppended(ch, error, post_id) == failure_history

\* variant: the history keeps the latest failure only
HistoryLatestOnly(ch, error, post_id) ==
    DictSet(failure_history, ch,
            <<[type |-> classify_error(error), msg |-> error,
               post_id |-> post_id, time |-> now]>>)

\* record_failure: the record appended to the channel's history
HistoryAfterFailure(ch, error, post_id) ==
    DictSet(failure_history, ch,
            Append(DictGet(failure_history, ch, <<>>),
                   [type |-> classify_error(error), msg |-> error,
                    post_id |-> post_id, time |-> now]))

\* variant: every failure is counted, the temporary ones too
CountEveryFailure(ch, error) ==
    DictSet(consecutive_failures, ch, DictGet(consecutive_failures, ch, 0) + 1)

\* record_failure: temporary errors are not counted
CountAfterFailure(ch, error) ==
    IF classify_error(error) # "temporary"
    THEN DictSet(consecutive_failures, ch, DictGet(consecutive_failures, ch, 0) + 1)
    ELSE consecutive_failures

\* variant: only a permanent error puts the channel on the skip list
SkipOnlyWhenPermanent(ch, error) ==
    IF classify_error(error) = "permanent" THEN DictSet(skip_list, ch, now) ELSE skip_list

\* variant: every failure puts the channel on the skip list
SkipWhateverTheError(ch, error) == DictSet(skip_list, ch, now)

\* record_failure: the channel enters the skip list with the time of the failure
SkipAfterFailure(ch, error) ==
    IF \/ classify_error(error) = "permanent"
       \/ DictGet(CountAfterFailure(ch, error), ch, 0) >= 1
    THEN DictSet(skip_list, ch, now)
    ELSE skip_list

\* variant: a success leaves the skip list alone
SkipKeptAfterSuccess(ch) == skip_list

\* record_success
CountAfterSuccess(ch) == DictSet(consecutive_failures, ch, 0)
SkipAfterSuccess(ch) == DictDel(skip_list, ch)

\* variant: a skip window of no length
SkipExpiredAtOnce(ch) == (now - skip_list[ch]) >= 0

\* time_elapsed >= self.skip_duration_minutes, both sides in ticks
SkipExpired(ch) ==
    (now - skip_list[ch]) >= skip_duration_minutes * 60 * TicksPerSecond

\* should_skip: the value returned
should_skip(ch) == ch \in DOMAIN skip_list /\ ~SkipExpired(ch)

\* variant: the check leaves an expired entry where it is
SkipKeptAfterCheck(ch) == skip_list

\* should_skip: an expired entry is removed by the check
SkipAfterCheck(ch) ==
    IF ch \in DOMAIN skip_list /\ SkipExpired(ch) THEN DictDel(skip_list, ch) ELSE skip_list

needs_alert(ch) == DictGet(consecutive_failures, ch, 0) >= alert_threshold

---------------------------------------------------------------------------
(* ParallelSender.send_post_to_channel. *)

\* the ids of the posts of the batch
PostIds == {posts[i] : i \in DOMAIN posts}

\* a call awaited by the batch itself returns to the batch; a gathered task ends
CpuAfterReturn(t) == IF t = BatchTask THEN BatchTask ELSE NoTask

\* the history entry of the running call: main pass (gathered) or retry pass (inline)
Noted(t, what) ==
    IF t = BatchTask
    THEN /\ retryRes' = [retryRes EXCEPT ![<<tpost[t], tch[t]>>] = what]
         /\ UNCHANGED mainRes
    ELSE /\ mainRes' = [mainRes EXCEPT ![<<tpost[t], tch[t]>>] = what]
         /\ UNCHANGED retryRes

\* variant: the rate token is taken before the skip list is looked at
SkipBranchAfterAcquire(t) ==
    /\ res' = [res EXCEPT ![t] = FALSE]
    /\ pc' = [pc EXCEPT ![t] = "done"]
    /\ cpu' = CpuAfterReturn(t)
    /\ Noted(t, "skipped")
    /\ global_tokens' = global_tokens - One
    /\ UNCHANGED <<rlCfg, global_last_update, global_lock, rlChat, rlAdapt, grants>>

\* the branch taken when should_skip is true: return False
SkipBranch(t) ==
    /\ res' = [res EXCEPT ![t] = FALSE]
    /\ pc' = [pc EXCEPT ![t] = "done"]
    /\ cpu' = CpuAfterReturn(t)
    /\ Noted(t, "skipped")
    /\ UNCHANGED <<rlVars, grants>>

\* lines 146-151: the skip check, then on to rate_limiter.acquire
SendStart(t) ==
    /\ pc[t] = "start" /\ cpu \in {t, NoTask}
    /\ skip_list' = SkipAfterCheck(tch[t])
    /\ chatCalls' = IF should_skip(tch[t]) THEN chatCalls
                    ELSE [chatCalls EXCEPT ![tch[t]] = @ + 1]
    /\ IF should_skip(tch[t])
       THEN SkipBranch(t)
       ELSE /\ pc' = [pc EXCEPT ![t] = "g_enter"]
            /\ cpu' = t
            /\ UNCHANGED <<res, mainRes, retryRes, rlVars, grants>>
    /\ UNCHANGED <<failure_history, consecutive_failures, sndVars, tch, tpost, wake>>
    /\ UNCHANGED <<batVars, envVars, sendCalls, platformCalls, slept, ncalls, spaced, lastCall>>
    /\ UNCHANGED <<histAdapt, noted, histTrack, swVars>>

\* bot.send_message / send_photo / send_video / send_document is awaited
PlatformCall(t) ==
    /\ pc[t] = "call" /\ cpu = t
    /\ platformCalls' = [platformCalls EXCEPT ![<<tpost[t], tch[t]>>] = @ + 1]
    /\ pc' = [pc EXCEPT ![t] = "sending"]
    /\ cpu' = NoTask
    /\ UNCHANGED <<rlVars, trVars, sndVars, tch, tpost, res, wake, batVars, envVars>>
    /\ UNCHANGED <<mainRes, retryRes, sendCalls, histRL>>
    /\ UNCHANGED <<histAdapt, noted, histTrack, swVars>>

\* lines 185-193: the platform call returned
SendOk(t) ==
    /\ pc[t] = "sending" /\ cpu = NoTask
    /\ report_success
    \* record_success
    /\ consecutive_failures' = CountAfterSuccess(tch[t])
    /\ skip_list' = SkipAfterSuccess(tch[t])
    /\ admin_notified' = DictDel(admin_notified, tch[t])
    /\ noted' = [noted EXCEPT ![tch[t]] = {}]
    /\ res' = [res EXCEPT ![t] = TRUE]
    /\ pc' = [pc EXCEPT ![t] = "done"]
    /\ cpu' = CpuAfterReturn(t)
    /\ Noted(t, "ok")
    /\ UNCHANGED <<rlCfg, rlGlobal, rlChat, failure_history, notifications>>
    /\ UNCHANGED <<tch, tpost, wake, batVars, envVars, sendCalls, platformCalls, histRL, histTrack, swVars>>

\* variant: only the flood-control error class is caught
CaughtFloodOnly(error) == Contains(error, "flood")

\* `except TelegramError`: every error of the platform call is a TelegramError
Caught(error) == error \in TelegramErrors

\* line 199: the sender's own flood test on the lower-cased text
SenderSeesFlood(error) == Contains(error, "flood") \/ Contains(error, "too many requests")

\* lines 206-216: which notification the failure count asks for
NotificationFor(ch, failure_count) ==
    IF failure_count = 1 THEN <<[ch |-> ch, level |-> "first", count |-> failure_count]>>
    ELSE IF failure_count = 2 THEN <<[ch |-> ch, level |-> "second", count |-> failure_count]>>
    ELSE IF failure_count >= 3 /\ ch \notin DOMAIN admin_notified
         THEN <<[ch |-> ch, level |-> "actions", count |-> failure_count]>>
    ELSE <<>>

\* lines 195-219: the platform call raised
SendErr(t) ==
    /\ pc[t] = "sending" /\ cpu = NoTask
    /\ \E error \in raisable :
         IF Caught(error)
         THEN LET ch == tch[t]
                  failure_count == DictGet(CountAfterFailure(ch, error), ch, 0)
              IN  /\ IF SenderSeesFlood(error)
                     THEN report_flood_control
                     ELSE UNCHANGED <<flood_detected, last_flood_time, current_rate, histAdapt>>
                  /\ failure_history' = HistoryAfterFailure(ch, error, tpost[t])
                  /\ consecutive_failures' = CountAfterFailure(ch, error)
                  /\ skip_list' = SkipAfterFailure(ch, error)
                  /\ notifications' = notifications \o NotificationFor(ch, failure_count)
                  /\ noted' = IF NotificationFor(ch, failure_count) # <<>>
                              THEN [noted EXCEPT ![ch] = @ \cup {failure_count}]
                              ELSE noted
                  /\ admin_notified' =
                        IF failure_count >= 3 /\ ch \notin DOMAIN admin_notified
                        THEN DictSet(admin_notified, ch, failure_count)
                        ELSE admin_notified
                  /\ res' = [res EXCEPT ![t] = FALSE]
                  /\ pc' = [pc EXCEPT ![t] = "done"]
                  /\ cpu' = CpuAfterReturn(t)
                  /\ Noted(t, "failed")
         ELSE \* the exception leaves send_post_to_channel
              /\ pc' = [pc EXCEPT ![t] = "raised"]
              /\ cpu' = CpuAfterReturn(t)
              /\ UNCHANGED <<flood_detected, last_flood_time, current_rate, trVars, sndVars>>
              /\ UNCHANGED <<res, mainRes, retryRes, histAdapt, noted>>
    /\ UNCHANGED <<rlCfg, rlGlobal, rlChat, success_count>>
    /\ UNCHANGED <<tch, tpost, wake, batVars, envVars, sendCalls, platformCalls, histRL, histTrack, swVars>>


---------------------------------------------------------------------------
(* ParallelSender.send_batch_to_all_channels. *)

NChannels == Len(channel_ids)
GatherSet == {GatherTasks[k] : k \in 1..NChannels}

\* what the call has returned: nothing yet, None, or the summary dict
NoResult == [kind |-> "pending", total_messages |-> 0, time_taken |-> 0, rate |-> 0,
             failed_count |-> 0, retry_success |-> 0]
NoneResult == [NoResult EXCEPT !.kind = "None"]

\* lines 294-305: the summary
BatchResult ==
    LET total_messages == Len(posts) * NChannels
        total_time == now - start_time
    IN  [kind |-> "BatchResult",
         total_messages |-> total_messages,
         time_taken |-> total_time,
         rate |-> IF total_time > 0
                  THEN (total_messages * TicksPerSecond) \div total_time ELSE 0,
         failed_count |-> Len(failed_sends),
         retry_success |-> IF failed_sends # <<>> THEN retry_success ELSE 0]

\* lines 224-236: the call; a set stop flag ends it with a bare return
BatchCall ==
    /\ bpc = "idle" /\ cpu = NoTask
    /\ IF stopped
       THEN /\ bpc' = "returned"
            /\ result' = NoneResult
            /\ UNCHANGED <<cpu, start_time>>
       ELSE /\ bpc' = "loop"
            /\ cpu' = BatchTask
            /\ start_time' = now
            /\ UNCHANGED result
    /\ UNCHANGED <<bi, failed_sends, messages_sent, ri, retry_success, posts_table, posts>>
    /\ UNCHANGED <<rlVars, trVars, sndVars, pc, tch, tpost, res, wake, envVars, histSend, histRL>>
    /\ UNCHANGED <<histAdapt, noted, histTrack, swVars>>

\* variant: the main loop runs to the last post whatever the stop flag says
LoopEndsAtLastPost == bi > Len(posts)

\* lines 239-242: the loop is left after the last post, or when the stop flag is set
LoopEnds == bi > Len(posts) \/ stopped

\* lines 239-253: the head of the main loop; the sends of one post are gathered
BatchLoop ==
    /\ bpc = "loop" /\ cpu = BatchTask
    /\ IF LoopEnds
       THEN /\ bpc' = "retry_check"
            /\ UNCHANGED <<pc, tch, tpost, cpu, mainRes, sendCalls>>
       ELSE /\ bpc' = "gather"
            /\ pc' = [t \in Tasks |-> IF t \in GatherSet THEN "start" ELSE pc[t]]
            /\ tch' = [t \in Tasks |->
                         IF t \in GatherSet
                         THEN channel_ids[CHOOSE k \in 1..NChannels : GatherTasks[k] = t]
                         ELSE tch[t]]
            /\ tpost' = [t \in Tasks |-> IF t \in GatherSet THEN posts[bi] ELSE tpost[t]]
            /\ mainRes' = [x \in DOMAIN mainRes |->
                             IF x[1] = posts[bi] THEN "called" ELSE mainRes[x]]
            /\ sendCalls' = [x \in DOMAIN sendCalls |->
                               IF x[1] = posts[bi]
                               THEN [sendCalls[x] EXCEPT !.main = @ + 1] ELSE sendCalls[x]]
            /\ cpu' = NoTask
    /\ UNCHANGED <<bi, start_time, failed_sends, messages_sent, ri, retry_success, result, posts_table, posts>>
    /\ UNCHANGED <<rlVars, trVars, sndVars, res, wake, envVars, retryRes, platformCalls, histRL>>
    /\ UNCHANGED <<histAdapt, noted, histTrack, swVars>>

\* variant: every pair is kept for the retry pass, whatever its result
RECURSIVE FailedOfAll(_, _)
FailedOfAll(post_id, k) ==
    IF k > NChannels THEN <<>>
    ELSE << <<post_id, channel_ids[k]>> >> \o FailedOfAll(post_id, k + 1)

\* the (post_id, channel) pairs of the results that are False, in channel order
RECURSIVE FailedOf(_, _)
FailedOf(post_id, k) ==
    IF k > NChannels THEN <<>>
    ELSE (IF res[GatherTasks[k]] THEN <<>> ELSE << <<post_id, channel_ids[k]>> >>)
         \o FailedOf(post_id, k + 1)

\* variant: len(results)
ResultsGathered == Cardinality(GatherSet)

\* sum(results)
Successful == Cardinality({t \in GatherSet : res[t]})

\* variant: the UPDATE is never committed
MarkedSentUncommitted(table, post_id, successful) == table

\* variant: the UPDATE names the last post of the batch instead of the current one
MarkedSentLastPost(table, post_id, successful) ==
    [table EXCEPT ![posts[Len(posts)]] = [posted |-> TRUE, successful_posts |-> successful,
                                          posted_at |-> now]]

\* the UPDATE of lines 263-270
MarkedSent(table, post_id, successful) ==
    [table EXCEPT ![post_id] = [posted |-> TRUE, successful_posts |-> successful,
                                posted_at |-> now]]

\* lines 253-275: gather returns (or raises), the failures are kept, the post is marked
BatchCollect ==
    /\ bpc = "gather" /\ cpu = NoTask
    /\ IF \E t \in GatherSet : pc[t] = "raised"
       THEN /\ bpc' = "aborted"
            /\ UNCHANGED <<bi, failed_sends, messages_sent, posts_table, pc, cpu>>
       ELSE /\ \A t \in GatherSet : pc[t] = "done"
            /\ messages_sent' = messages_sent + NChannels
            /\ failed_sends' = failed_sends \o FailedOf(posts[bi], 1)
            /\ posts_table' = MarkedSent(posts_table, posts[bi], Successful)
            /\ bi' = bi + 1
            /\ bpc' = "loop"
            /\ pc' = [t \in Tasks |-> IF t \in GatherSet THEN "idle" ELSE pc[t]]
            /\ cpu' = BatchTask
    /\ UNCHANGED <<start_time, ri, retry_success, result, posts>>
    /\ UNCHANGED <<rlVars, trVars, sndVars, tch, tpost, res, wake, envVars, histSend, histRL>>
    /\ UNCHANGED <<histAdapt, noted, histTrack, swVars>>

\* lines 278-279: the retry phase is entered when something failed and no stop is set
BatchRetryCheck ==
    /\ bpc = "retry_check" /\ cpu = BatchTask
    /\ retry_success' = 0
    /\ ri' = 1
    /\ bpc' = IF failed_sends # <<>> /\ ~stopped THEN "retry_loop" ELSE "summary"
    /\ UNCHANGED <<bi, start_time, failed_sends, messages_sent, result, posts_table, posts>>
    /\ UNCHANGED <<rlVars, trVars, sndVars, taskVars, envVars, histSend, histRL>>
    /\ UNCHANGED <<histAdapt, noted, histTrack, swVars>>

\* lines 282-289: the next failed pair; its post is read back and sent again
BatchRetryLoop ==
    /\ bpc = "retry_loop" /\ cpu = BatchTask
    /\ IF ri > Len(failed_sends)
       THEN /\ bpc' = "summary"
            /\ UNCHANGED <<ri, pc, tch, tpost, sendCalls, retryRes>>
       ELSE IF failed_sends[ri][1] \in DOMAIN posts_table
       THEN /\ bpc' = "retry_wait"
            /\ pc' = [pc EXCEPT ![BatchTask] = "start"]
            /\ tch' = [tch EXCEPT ![BatchTask] = failed_sends[ri][2]]
            /\ tpost' = [tpost EXCEPT ![BatchTask] = failed_sends[ri][1]]
            /\ sendCalls' = [sendCalls EXCEPT ![failed_sends[ri]].retry = @ + 1]
            /\ retryRes' = [retryRes EXCEPT ![failed_sends[ri]] = "called"]
            /\ UNCHANGED ri
       ELSE /\ ri' = ri + 1
            /\ UNCHANGED <<bpc, pc, tch, tpost, sendCalls, retryRes>>
    /\ UNCHANGED <<bi, start_time, failed_sends, messages_sent, retry_success, result, posts_table, posts>>
    /\ UNCHANGED <<rlVars, trVars, sndVars, res, wake, cpu, envVars, mainRes, platformCalls, histRL>>
    /\ UNCHANGED <<histAdapt, noted, histTrack, swVars>>

\* lines 289-290: the retried send returned
BatchRetryDone ==
    /\ bpc = "retry_wait" /\ cpu = BatchTask
    /\ pc[BatchTask] \in {"done", "raised"}
    /\ IF pc[BatchTask] = "raised"
       THEN /\ bpc' = "aborted"
            /\ cpu' = NoTask
            /\ UNCHANGED <<ri, retry_success, pc>>
       ELSE /\ retry_success' = IF res[BatchTask] THEN retry_success + 1 ELSE retry_success
            /\ ri' = ri + 1
            /\ bpc' = "retry_loop"
            /\ pc' = [pc EXCEPT ![BatchTask] = "idle"]
            /\ UNCHANGED cpu
    /\ UNCHANGED <<bi, start_time, failed_sends, messages_sent, result, posts_table, posts>>
    /\ UNCHANGED <<rlVars, trVars, sndVars, tch, tpost, res, wake, envVars, histSend, histRL>>
    /\ UNCHANGED <<histAdapt, noted, histTrack, swVars>>

\* lines 294-305
BatchSummary ==
    /\ bpc = "summary" /\ cpu = BatchTask
    /\ result' = BatchResult
    /\ bpc' = "returned"
    /\ cpu' = NoTask
    /\ UNCHANGED <<bi, start_time, failed_sends, messages_sent, ri, retry_success, posts_table, posts>>
    /\ UNCHANGED <<rlVars, trVars, sndVars, pc, tch, tpost, res, wake, envVars, histSend, histRL>>
    /\ UNCHANGED <<histAdapt, noted, histTrack, swVars>>

---------------------------------------------------------------------------
(* Environment: the stop flag and the clock. *)

\* emergency_stopped_flag() starts to return True
SetStop ==
    /\ cpu = NoTask /\ ~stopped
    /\ bpc # "returned"
    /\ stopped' = TRUE
    /\ UNCHANGED <<now, ticks, raisable>>
    /\ UNCHANGED <<rlVars, trVars, sndVars, taskVars, batVars, histSend, histRL>>
    /\ UNCHANGED <<histAdapt, noted, histTrack, swVars>>

\* a task the event loop will run without waiting for anything
Ready(t) ==
    \/ pc[t] = "start"
    \/ pc[t] = "g_wait" /\ global_lock.holder = NoTask /\ Head(global_lock.waiters) = t
    \/ pc[t] = "c_wait" /\ chat_locks[tch[t]].holder = NoTask
                        /\ Head(chat_locks[tch[t]].waiters) = t
    \/ pc[t] \in {"g_sleep", "c_sleep"} /\ now >= wake[t]

Sleepers == {t \in Tasks : pc[t] \in {"g_sleep", "c_sleep"}}

\* the moments something is due: the end of a sleep, of a skip window
DueTimes == {wake[t] : t \in Sleepers}
            \cup {skip_list[c] + skip_duration_minutes * 60 * TicksPerSecond : c \in DOMAIN skip_list}

\* the clock advances by d ticks; a sleeping task is woken on time
Tick(d) ==
    /\ cpu = NoTask
    /\ d > 0
    /\ ticks < MaxTicks
    /\ \A t \in Tasks : ~Ready(t)
    /\ \A t \in Sleepers : now + d <= wake[t]
    /\ now' = now + d
    /\ ticks' = ticks + 1
    /\ UNCHANGED <<stopped, raisable>>
    /\ UNCHANGED <<rlVars, trVars, sndVars, taskVars, batVars, histSend, histRL>>
    /\ UNCHANGED <<histAdapt, noted, histTrack, swVars>>

\* the clock while a batch runs: a tick, or on to the next moment something is due
BatchTick ==
    /\ bpc \notin {"idle", "returned", "aborted"}
    /\ \E d \in {1} \cup {w - now : w \in DueTimes} : Tick(d)


---------------------------------------------------------------------------
(* The dispatcher: one batch of `posts` to `channel_ids`. *)

Pairs == PostIds \X Channels

\* the objects as main() constructs them, for the given constructor arguments
Constructed(global_rate, chat_rate, burst) ==
    /\ base_global_rate = global_rate * RateScale
    /\ per_chat_rate = chat_rate
    /\ burst_allowance = burst
    /\ global_tokens = burst * One
    /\ global_last_update = now
    /\ global_lock = FreeLock
    /\ chat_tokens = EmptyDict
    /\ chat_locks = EmptyDict
    /\ current_rate = global_rate * RateScale
    /\ flood_detected = FALSE
    /\ last_flood_time = NoTime
    /\ success_count = 0
    /\ skip_list = EmptyDict
    /\ failure_history = EmptyDict
    /\ consecutive_failures = EmptyDict
    /\ admin_notified = EmptyDict
    /\ notifications = <<>>

\* no tracker method has been called directly
NoOp == [op |-> "none", ch |-> "A", ret |-> FALSE]

\* nothing is running and nothing has been done
Quiet ==
    /\ pc = [t \in Tasks |-> "idle"]
    /\ tch = [t \in Tasks |-> "A"]
    /\ tpost = [t \in Tasks |-> NoPost]
    /\ res = [t \in Tasks |-> FALSE]
    /\ wake = [t \in Tasks |-> 0]
    /\ cpu = NoTask
    /\ bpc = "idle"
    /\ bi = 1
    /\ start_time = 0
    /\ failed_sends = <<>>
    /\ messages_sent = 0
    /\ ri = 1
    /\ retry_success = 0
    /\ result = NoResult
    /\ expired_channels = <<>>
    /\ sci = 1
    /\ failed_posts = <<>>
    /\ spi = 1
    /\ posts_table = [p \in PostIds |->
                         [posted |-> FALSE, successful_posts |-> 0, posted_at |-> NoTime]]
    /\ now = 1
    /\ ticks = 0
    /\ stopped = FALSE
    /\ mainRes = [x \in Pairs |-> "none"]
    /\ retryRes = [x \in Pairs |-> "none"]
    /\ sendCalls = [x \in Pairs |-> [main |-> 0, retry |-> 0]]
    /\ platformCalls = [x \in Pairs |-> 0]
    /\ grants = <<>>
    /\ slept = [t \in Tasks |-> FALSE]
    /\ ncalls = 0
    /\ spaced = TRUE
    /\ lastCall = EmptyDict
    /\ chatCalls = [c \in Channels |-> 0]
    /\ okSinceFlood = 0
    /\ nfloods = 0
    /\ noted = [c \in Channels |-> {}]
    /\ lastOp = NoOp

\* the errors the platform raises during one batch: unreachable destinations and
\* network trouble, or flood control and network trouble
BatchErrors == {{ErrForbidden, ErrTimedOut}, {ErrFlood, ErrTimedOut}}

\* the posts of the batch
TwoPosts == <<1, 2>>

Init ==
    /\ posts = TwoPosts
    /\ Quiet
    /\ Constructed(10, 2, 2)
    /\ raisable \in BatchErrors

\* the limiter's steps of a send: within one batch no two sends to one destination
\* overlap, so only the global lock is ever waited for here
SendAcquire(t) ==
    /\ tpost[t] # NoPost
    /\ AcquireStep(t)

Next ==
    \/ BatchCall
    \/ BatchLoop
    \/ BatchCollect
    \/ BatchRetryCheck
    \/ BatchRetryLoop
    \/ BatchRetryDone
    \/ BatchSummary
    \/ \E t \in Tasks : SendStart(t)
    \/ \E t \in Tasks : SendAcquire(t)
    \/ \E t \in Tasks : PlatformCall(t)
    \/ \E t \in Tasks : SendOk(t)
    \/ \E t \in Tasks : SendErr(t)
    \/ SetStop
    \/ BatchTick

Spec == Init /\ [][Next]_vars

---------------------------------------------------------------------------
(* A batch of three posts to the two channels, the objects constructed as main()     *)
(* constructs them; the only error the platform raises is the one of an unreachable  *)
(* destination, and nobody sets the stop flag.                                       *)

ThreePosts == <<1, 2, 3>>

InitBatch3 ==
    /\ posts = ThreePosts
    /\ Quiet
    /\ raisable = {ErrForbidden}
    /\ Constructed(25, 18, 50)

NextBatch3 ==
    \/ BatchCall
    \/ BatchLoop
    \/ BatchCollect
    \/ BatchRetryCheck
    \/ BatchRetryLoop
    \/ BatchRetryDone
    \/ BatchSummary
    \/ \E t \in Tasks : SendStart(t)
    \/ \E t \in Tasks : SendAcquire(t)
    \/ \E t \in Tasks : PlatformCall(t)
    \/ \E t \in Tasks : SendOk(t)
    \/ \E t \in Tasks : SendErr(t)
    \/ BatchTick

SpecBatch3 == InitBatch3 /\ [][NextBatch3]_vars

---------------------------------------------------------------------------
(* The limiter alone: tasks that call acquire(chat_id) directly. *)

\* constructor arguments: (global_rate per second, per_chat_rate per minute, burst_allowance)
RLConfigs == {<<10, 1, 2>>, <<5, 2, 1>>}

\* 1/refillRate of the two buckets, in ticks
GlobalSpacing == CeilDiv(RateScale * TicksPerSecond, current_rate)
ChatSpacing == CeilDiv(60 * TicksPerSecond, per_chat_rate)

\* whether a call made now keeps the nominal spacing to the calls before it
KeepsSpacing(c) ==
    /\ "global" \in DOMAIN lastCall => now - lastCall["global"] >= GlobalSpacing
    /\ c \in DOMAIN lastCall => now - lastCall[c] >= ChatSpacing

\* a task calls rate_limiter.acquire(c)
CallAcquire(t, c) ==
    /\ pc[t] = "idle" /\ cpu = NoTask
    /\ ncalls < MaxCalls
    /\ pc' = [pc EXCEPT ![t] = "g_enter"]
    /\ tch' = [tch EXCEPT ![t] = c]
    /\ cpu' = t
    /\ ncalls' = ncalls + 1
    /\ slept' = [slept EXCEPT ![t] = FALSE]
    /\ spaced' = (spaced /\ KeepsSpacing(c))
    /\ lastCall' = DictSet(DictSet(lastCall, "global", now), c, now)
    /\ chatCalls' = [chatCalls EXCEPT ![c] = @ + 1]
    /\ UNCHANGED <<rlVars, trVars, sndVars, tpost, res, wake, batVars, envVars, histSend, grants>>
    /\ UNCHANGED <<histAdapt, noted, histTrack, swVars>>

\* the clock of the limiter's specification
LimiterTick ==
    \E d \in {1, ChatSpacing} \cup {wake[t] - now : t \in Sleepers} : Tick(d)

InitRL ==
    /\ posts = TwoPosts
    /\ Quiet
    /\ raisable = {}
    /\ \E cfg \in RLConfigs : Constructed(cfg[1], cfg[2], cfg[3])

\* the tasks that call the limiter
Callers == {"g1", "g2"}

NextRL ==
    \/ \E t \in Callers, c \in Channels : CallAcquire(t, c)
    \/ \E t \in Callers : AcquireStep(t)
    \/ LimiterTick

SpecRL == InitRL /\ [][NextRL]_vars

---------------------------------------------------------------------------
(* The adaptive rate alone: report_flood_control and report_success called directly. *)

\* the global_rate the limiter is constructed with
AdaptRates == {8, 25}

\* the recovery cool-down of report_success, in ticks
Cooldown == 60 * TicksPerSecond

CallReportFlood ==
    /\ cpu = NoTask
    /\ nfloods < MaxFloods
    /\ report_flood_control
    /\ UNCHANGED <<rlCfg, rlGlobal, rlChat, success_count>>
    /\ UNCHANGED <<trVars, sndVars, taskVars, batVars, envVars, histSend, histRL, noted, histTrack, swVars>>

CallReportSuccess ==
    /\ cpu = NoTask
    /\ success_count < MaxSuccessCount
    /\ report_success
    /\ UNCHANGED <<rlCfg, rlGlobal, rlChat>>
    /\ UNCHANGED <<trVars, sndVars, taskVars, batVars, envVars, histSend, histRL, noted, histTrack, swVars>>

\* the clock: a tick, the cool-down, a tick more than the cool-down
AdaptTick ==
    \E d \in {1, Cooldown, Cooldown + 1} : Tick(d)

InitAdapt ==
    /\ posts = TwoPosts
    /\ Quiet
    /\ raisable = {}
    /\ \E r \in AdaptRates : Constructed(r, 18, 50)

NextAdapt ==
    \/ CallReportFlood
    \/ CallReportSuccess
    \/ AdaptTick

SpecAdapt == InitAdapt /\ [][NextAdapt]_vars

---------------------------------------------------------------------------
(* The sender alone: send_post_to_channel called directly, one call after another,   *)
(* with every error text the platform call can raise.                                *)

Senders == {"g1"}

RECURSIVE SumMain(_)
SumMain(S) ==
    IF S = {} THEN 0
    ELSE LET x == CHOOSE y \in S : TRUE IN sendCalls[x].main + SumMain(S \ {x})

\* send_post_to_channel calls made so far
SendsMade == SumMain(DOMAIN sendCalls)

\* the post of the next call: the posts are sent in their order, the last one again
NextPost == posts[Min(SendsMade + 1, Len(posts))]

\* a task calls send_post_to_channel(bot, post, channel_id)
CallSend(t, p, c) ==
    /\ pc[t] = "idle" /\ cpu = NoTask
    /\ SendsMade < MaxSends
    /\ p = NextPost
    /\ pc' = [pc EXCEPT ![t] = "start"]
    /\ tch' = [tch EXCEPT ![t] = c]
    /\ tpost' = [tpost EXCEPT ![t] = p]
    /\ sendCalls' = [sendCalls EXCEPT ![<<p, c>>].main = @ + 1]
    /\ mainRes' = [mainRes EXCEPT ![<<p, c>>] = "called"]
    /\ UNCHANGED <<rlVars, trVars, sndVars, res, wake, cpu, batVars, envVars>>
    /\ UNCHANGED <<retryRes, platformCalls, histRL, histAdapt, noted, histTrack, swVars>>

\* the caller has the value send_post_to_channel returned
SendReturn(t) ==
    /\ pc[t] = "done" /\ cpu = NoTask
    /\ pc' = [pc EXCEPT ![t] = "idle"]
    /\ tpost' = [tpost EXCEPT ![t] = NoPost]
    /\ UNCHANGED <<rlVars, trVars, sndVars, tch, res, wake, cpu, batVars, envVars>>
    /\ UNCHANGED <<histSend, histRL, histAdapt, noted, histTrack, swVars>>

\* the clock: on to the next moment something is due
SendTick ==
    \E d \in {w - now : w \in DueTimes} : Tick(d)

InitSend ==
    /\ posts = TwoPosts
    /\ Quiet
    /\ raisable = TelegramErrors
    /\ Constructed(10, 2, 3)

NextSend ==
    \/ \E t \in Senders, p \in PostIds, c \in Channels : CallSend(t, p, c)
    \/ \E t \in Senders : SendStart(t)
    \/ \E t \in Senders : SendAcquire(t)
    \/ \E t \in Senders : PlatformCall(t)
    \/ \E t \in Senders : SendOk(t)
    \/ \E t \in Senders : SendErr(t)
    \/ \E t \in Senders : SendReturn(t)
    \/ SendTick

SpecSend == InitSend /\ [][NextSend]_vars

---------------------------------------------------------------------------
(* The failure tracker alone: the methods of SmartRetrySystem called directly, in    *)
(* any order, with the clock moving between the calls.                               *)

\* the error texts recorded: one of each kind
TrackErrors == {ErrForbidden, ErrFlood, ErrTimedOut}

\* the direct call that is being made, and what it returns
Called(op, ch, ret) == [op |-> op, ch |-> ch, ret |-> ret]

RECURSIVE SumRecords(_)
SumRecords(S) ==
    IF S = {} THEN 0
    ELSE LET c == CHOOSE x \in S : TRUE IN Len(failure_history[c]) + SumRecords(S \ {c})

\* the failures recorded so far, all channels together
FailuresRecorded == SumRecords(DOMAIN failure_history)

\* nothing but the tracker and the history of its calls is touched by a direct call
TrackerOnly ==
    UNCHANGED <<rlVars, sndVars, taskVars, batVars, envVars, histSend, histRL, histAdapt, noted, swVars>>

\* record_failure(channel_id, error, post_id)
CallRecordFailure(ch, error, post_id) ==
    /\ cpu = NoTask
    /\ FailuresRecorded < MaxFailures
    /\ failure_history' = HistoryAfterFailure(ch, error, post_id)
    /\ consecutive_failures' = CountAfterFailure(ch, error)
    /\ skip_list' = SkipAfterFailure(ch, error)
    /\ lastOp' = Called("record_failure", ch, FALSE)
    /\ TrackerOnly

\* record_success(channel_id)
CallRecordSuccess(ch) ==
    /\ cpu = NoTask
    /\ consecutive_failures' = CountAfterSuccess(ch)
    /\ skip_list' = SkipAfterSuccess(ch)
    /\ lastOp' = Called("record_success", ch, FALSE)
    /\ UNCHANGED failure_history
    /\ TrackerOnly

\* should_skip(channel_id): the answer, and the removal of an expired entry
CallShouldSkip(ch) ==
    /\ cpu = NoTask
    /\ skip_list' = SkipAfterCheck(ch)
    /\ lastOp' = Called("should_skip", ch, should_skip(ch))
    /\ UNCHANGED <<failure_history, consecutive_failures>>
    /\ TrackerOnly

\* needs_alert(channel_id): a query
CallNeedsAlert(ch) ==
    /\ cpu = NoTask
    /\ lastOp' = Called("needs_alert", ch, needs_alert(ch))
    /\ UNCHANGED trVars
    /\ TrackerOnly

\* clear_skip_list()
CallClearSkipList ==
    /\ cpu = NoTask
    /\ skip_list' = EmptyDict
    /\ lastOp' = Called("clear_skip_list", lastOp.ch, FALSE)
    /\ UNCHANGED <<failure_history, consecutive_failures>>
    /\ TrackerOnly

\* remove_from_skip_list(channel_id)
CallRemoveFromSkipList(ch) ==
    /\ cpu = NoTask
    /\ skip_list' = DictDel(skip_list, ch)
    /\ lastOp' = Called("remove_from_skip_list", ch, FALSE)
    /\ UNCHANGED <<failure_history, consecutive_failures>>
    /\ TrackerOnly

\* get_health_report(): the channels of each list
get_health_report ==
    [healthy   |-> {c \in DOMAIN consecutive_failures : consecutive_failures[c] = 0},
     warning   |-> {c \in DOMAIN consecutive_failures :
                       consecutive_failures[c] # 0 /\ consecutive_failures[c] < alert_threshold},
     critical  |-> {c \in DOMAIN consecutive_failures :
                       consecutive_failures[c] # 0 /\ consecutive_failures[c] >= alert_threshold},
     skip_list |-> DOMAIN skip_list]

\* the clock: on to the last tick of a skip window, or to its end
TrackTick ==
    \E d \in {w - now - 1 : w \in DueTimes} \cup {w - now : w \in DueTimes} : Tick(d)

InitTrack ==
    /\ posts = TwoPosts
    /\ Quiet
    /\ raisable = {}
    /\ Constructed(25, 18, 50)

NextTrack ==
    \/ \E ch \in Channels, error \in TrackErrors : CallRecordFailure(ch, error, posts[1])
    \/ \E ch \in Channels : CallRecordSuccess(ch)
    \/ \E ch \in Channels : CallShouldSkip(ch)
    \/ CallClearSkipList
    \/ \E ch \in Channels : CallRemoveFromSkipList(ch)
    \/ TrackTick

SpecTrack == InitTrack /\ [][NextTrack]_vars

---------------------------------------------------------------------------
(* A long streak: failure after failure recorded on one channel, with the checks     *)
(* and the queries between them, while the clock stands still.                       *)

StreakChannel == channel_ids[1]

\* record_failure, as often as the streak is allowed to be long
StreakFailure(error) ==
    /\ Len(DictGet(failure_history, StreakChannel, <<>>)) < MaxStreak
    /\ failure_history' = HistoryAfterFailure(StreakChannel, error, posts[1])
    /\ consecutive_failures' = CountAfterFailure(StreakChannel, error)
    /\ skip_list' = SkipAfterFailure(StreakChannel, error)
    /\ lastOp' = Called("record_failure", StreakChannel, FALSE)
    /\ TrackerOnly

NextStreak ==
    \/ \E error \in TrackErrors : StreakFailure(error)
    \/ CallRecordSuccess(StreakChannel)
    \/ CallShouldSkip(StreakChannel)
    \/ CallNeedsAlert(StreakChannel)

SpecStreak == InitTrack /\ [][NextStreak]_vars

---------------------------------------------------------------------------
(* Properties of the dispatcher (specification Spec). *)

Outcomes == {"ok", "failed", "skipped"}
Posted(p) == posts_table[p].posted
\* a platform send of post p has been started
SendStarted(p) == \E c \in Channels : platformCalls[<<p, c>>] > 0
\* a send_post_to_channel call of the main pass has been made for post p
MainCalled(p) == \E c \in Channels : mainRes[<<p, c>>] # "none"

\* C1: a send_post_to_channel call for a channel that should_skip reports as skipped
\* returns False at once: no platform call is made, and the rate limiter (tokens,
\* time stamps, locks, adaptive rate), consecutive_failures and failure_history are
\* left as they were.
C1_SkippedSendTouchesNothing ==
    [][\A t \in Tasks :
          (pc[t] = "start" /\ should_skip(tch[t]) /\ pc'[t] # "start")
          => /\ pc'[t] = "done" /\ res'[t] = FALSE
             /\ platformCalls' = platformCalls
             /\ rlVars' = rlVars
             /\ consecutive_failures' = consecutive_failures
             /\ failure_history' = failure_history]_vars

\* C1 witness: a send of the main pass was skipped and nothing was sent for it
C1_Witness ==
    \E x \in Pairs : mainRes[x] = "skipped" /\ platformCalls[x] = 0

\* C2: a failed platform call never aborts the batch: no exception leaves
\* send_post_to_channel or the batch, and a batch that ends with the stop flag unset
\* has brought every (post, channel) send of the main pass to an outcome.
C2_FailureNeverAborts ==
    /\ bpc # "aborted"
    /\ \A t \in Tasks : pc[t] # "raised"
    /\ (bpc \in {"retry_check", "retry_loop", "retry_wait", "summary", "returned"} /\ ~stopped)
          => \A x \in Pairs : mainRes[x] \in Outcomes

\* C2 witness: the first send of the batch failed, the other channel and the next post
\* were still sent, and the batch returned
C2_Witness ==
    /\ bpc = "returned" /\ ~stopped
    /\ mainRes[<<1, "A">>] = "failed"
    /\ mainRes[<<1, "B">>] = "ok"
    /\ mainRes[<<2, "B">>] = "ok"

\* C3: posts are handled one at a time in the order given; a post is marked sent only
\* after each of its channel sends has an outcome, and before any send of the next post
\* is started.
C3_PersistBetweenPosts ==
    \A i \in DOMAIN posts :
        /\ Posted(posts[i]) => \A c \in Channels : mainRes[<<posts[i], c>>] \in Outcomes
        /\ \A j \in DOMAIN posts : (i < j /\ MainCalled(posts[j])) => Posted(posts[i])

\* C3 witness: post 1 is marked sent after a failed send, and post 2 is in flight
C3_Witness ==
    /\ Posted(1) /\ ~Posted(2)
    /\ \E c \in Channels : mainRes[<<1, c>>] = "failed"
    /\ \E c \in Channels : mainRes[<<2, c>>] = "called"

\* C4: at every point at most one post has a platform send started without being
\* marked sent, and every post before a post with a started send is marked sent.
C4_OnePostInFlight ==
    /\ Cardinality({p \in PostIds : SendStarted(p) /\ ~Posted(p)}) <= 1
    /\ \A i, j \in DOMAIN posts :
          (i < j /\ SendStarted(posts[j])) => Posted(posts[i])

\* C4 witness: post 2 has a platform send in flight, is not yet marked, post 1 is
C4_Witness ==
    /\ bpc = "gather"
    /\ SendStarted(2) /\ ~Posted(2) /\ Posted(1)

\* C5: every (post, channel) pair goes through send_post_to_channel at most once in
\* the main pass and at most once in the retry pass, and in the retry pass only when
\* its main-pass call returned False.
C5_AtMostTwoCalls ==
    \A x \in Pairs :
        /\ sendCalls[x].main <= 1
        /\ sendCalls[x].retry <= 1
        /\ sendCalls[x].retry = 1
              => sendCalls[x].main = 1 /\ mainRes[x] \in {"failed", "skipped"}

\* C5 witness: a pair failed in the main pass and again in the retry pass, and the
\* batch returned
C5_Witness ==
    /\ bpc = "returned"
    /\ \E x \in Pairs : mainRes[x] = "failed" /\ retryRes[x] = "failed"
                        /\ sendCalls[x].main = 1 /\ sendCalls[x].retry = 1

\* C6 (as claimed): once the stop flag is set, no further send_post_to_channel call is
\* started, neither in the main loop nor in the retry pass.
C6_NoCallAfterStop ==
    [][stopped => sendCalls' = sendCalls]_vars

\* C7 (as claimed): every call of send_batch_to_all_channels returns the summary.
C7_AlwaysSummary ==
    bpc = "returned" => result.kind = "BatchResult"

---------------------------------------------------------------------------
(* Properties of the limiter (specification SpecRL). *)

\* C8 (as claimed): at a constant rate r and burst b, any window of length T holds at
\* most b + r*T grants of the global bucket.
C8_GlobalCeiling ==
    \A i, j \in DOMAIN grants :
        i <= j => (j - i + 1) * One
                    <= burst_allowance * One + GlobalRefill(grants[j] - grants[i], current_rate)

\* every bucket holds between 0 and its capacity
TokensInRange ==
    /\ 0 <= global_tokens /\ global_tokens <= burst_allowance * One
    /\ \A c \in DOMAIN chat_tokens :
          0 <= chat_tokens[c].tokens /\ chat_tokens[c].tokens <= per_chat_rate * One

\* a grant of the global bucket leaves its level one token lower
GlobalGrantCostsOne ==
    grants' # grants => GlobalRefilled' = GlobalRefilled - One

\* a grant of a destination's bucket leaves its level one token lower
ChatGrantCostsOne ==
    \A t \in Tasks :
        (pc[t] \in {"c_body", "c_sleep"} /\ pc'[t] \notin {"c_body", "c_sleep"})
        => ChatRefilled(tch[t])' = ChatRefilled(tch[t]) - One

\* C9 (as claimed): 0 <= tokens <= capacity for the global bucket (capacity
\* burst_allowance) and for every destination bucket (capacity per_chat_rate), and each
\* grant lowers the bucket's tokens by exactly one.
C9_TokensBounded ==
    /\ []TokensInRange
    /\ [][GlobalGrantCostsOne /\ ChatGrantCostsOne]_vars

\* C10: as long as every Acquire call comes at least 1/refillRate after the call before
\* it, on the global bucket and on its destination's bucket, no call sleeps or queues.
C10_SpacedCallsNeverWait ==
    spaced => \A t \in Tasks : ~slept[t] /\ pc[t] \notin {"g_sleep", "c_sleep", "g_wait", "c_wait"}

\* C10 witness: three spaced calls, so two of them for one destination a refill
\* interval apart, have all returned and none has slept
C10_Witness ==
    /\ spaced /\ ncalls >= 3
    /\ Len(grants) = ncalls
    /\ \A t \in Tasks : pc[t] = "idle" /\ ~slept[t]
    /\ \E c \in DOMAIN chat_tokens : chat_tokens[c].last_update >= 1 + ChatSpacing

\* the tasks between the read of a bucket's tokens and the write that ends their call
InGlobalBucket == {t \in Tasks : pc[t] \in {"g_body", "g_sleep"}}
InChatBucket(c) == {t \in Tasks : pc[t] \in {"c_body", "c_sleep"} /\ tch[t] = c}

\* at most one task is inside each bucket, and it holds the bucket's lock
BucketMutex ==
    /\ Cardinality(InGlobalBucket) <= 1
    /\ \A t \in InGlobalBucket : global_lock.holder = t
    /\ \A c \in Channels :
          /\ Cardinality(InChatBucket(c)) <= 1
          /\ \A t \in InChatBucket(c) : c \in DOMAIN chat_locks /\ chat_locks[c].holder = t

\* a bucket is written only by the task that is inside it
WrittenByHolder ==
    /\ <<global_tokens, global_last_update>>' # <<global_tokens, global_last_update>>
          => \E t \in InGlobalBucket : pc'[t] # pc[t]
    /\ \A c \in Channels :
          DictGet(chat_tokens', c, <<>>) # DictGet(chat_tokens, c, <<>>)
          => \E t \in InChatBucket(c) : pc'[t] # pc[t]

\* C11: concurrent acquire calls on one bucket exclude each other: at most one task is
\* between reading a bucket's tokens and writing them back, also while it sleeps for a
\* token, and nobody else writes the bucket in between.
C11_OneTaskPerBucket ==
    /\ []BucketMutex
    /\ [][WrittenByHolder]_vars

\* C11 witness: a task sleeps inside the global bucket while another one queues for it
C11_Witness ==
    \E t, u \in Tasks : pc[t] = "g_sleep" /\ pc[u] = "g_wait" /\ global_lock.holder = t

---------------------------------------------------------------------------
(* Properties of the adaptive rate (specification SpecAdapt). *)

\* the floor of the claims: 10 per second
FloodFloor == 10 * RateScale

\* the step is a report_flood_control call
FloodSignalled == nfloods' # nfloods

\* the new rate is 0.7 times the old one, to the precision of the rate's unit
DampedBySevenTenths ==
    /\ current_rate' * 10 <= current_rate * 7
    /\ current_rate' * 10 > current_rate * 7 - 10

\* C12 (as claimed): each flood signal lowers the effective rate strictly, by the factor
\* 0.7, and the rate is never below the floor of 10 per second afterwards.
C12_FloodStrictlyDamps ==
    [][FloodSignalled => /\ DampedBySevenTenths
                         /\ current_rate' < current_rate
                         /\ current_rate' >= FloodFloor]_vars

\* C12 (amended): each flood signal sets the effective rate to max(0.7 * rate, 10): the
\* rate after a signal is never below 10, it is 0.7 times the old rate when that is at
\* least 10 and exactly 10 otherwise, and it is strictly lower than before whenever the
\* old rate was above 10.
C12_FloodDampsToFloor ==
    [][FloodSignalled => /\ current_rate' >= FloodFloor
                         /\ current_rate * 7 >= FloodFloor * 10 => DampedBySevenTenths
                         /\ current_rate * 7 < FloodFloor * 10 => current_rate' = FloodFloor
                         /\ current_rate > FloodFloor => current_rate' < current_rate]_vars

\* C12 witness: three flood signals in a row have taken the default rate of 25 to the floor
C12_Witness ==
    /\ base_global_rate = 25 * RateScale
    /\ nfloods = 3 /\ okSinceFlood = 0
    /\ current_rate = FloodFloor

\* the effective rate is at most the configured baseline
RateAtMostBaseline == current_rate <= base_global_rate

\* the step is a report_success call
SuccessReported == success_count' # success_count

\* C14 (as claimed): recovery never overshoots and is monotonic: in every reachable
\* state the effective rate is at most the baseline, and report_success never lowers
\* the effective rate.
C14_RecoveryBounded ==
    /\ []RateAtMostBaseline
    /\ [][SuccessReported => current_rate' >= current_rate]_vars

\* C15 (as claimed): report_success changes the effective rate only when more than 60
\* seconds have passed since the most recent flood signal and at least 50 successes
\* have been reported since that signal, this one included; the success counter is
\* then reset to 0.
C15_RecoveryNeedsFiftyAfterFlood ==
    [][(SuccessReported /\ current_rate' # current_rate)
          => /\ last_flood_time # NoTime
             /\ now - last_flood_time > Cooldown
             /\ okSinceFlood' >= 50
             /\ success_count' = 0]_vars

---------------------------------------------------------------------------
(* Properties of send_post_to_channel and of the tracker (specification SpecSend). *)

\* C13 (as claimed): a flood signal disables the remaining burst at once: from the
\* signal on the global bucket holds no more than the one token of steady pacing, so
\* later acquire calls cannot be granted back to back out of the burst.
C13_FloodDisablesBurst ==
    flood_detected => global_tokens <= One

\* the failures recorded for a channel
HistoryOf(ch) == DictGet(failure_history, ch, <<>>)

\* the step ends the platform call of task t
PlatformCallEnds(t) == pc[t] = "sending" /\ pc'[t] # "sending"

\* the step has made the calls of the success path: report_success, record_success(ch)
SuccessPathTaken(ch) ==
    /\ \/ success_count' = success_count + 1
       \/ success_count' = 0 /\ RecoveryDue(success_count + 1)
    /\ okSinceFlood' = Min(okSinceFlood + 1, 50)
    /\ consecutive_failures'[ch] = 0
    /\ ch \notin DOMAIN skip_list'
    /\ failure_history' = failure_history

\* the step has called record_failure(ch, err, post_id) once: one record more for ch
FailureRecordedOnce(ch, post_id) ==
    /\ DOMAIN failure_history' = DOMAIN failure_history \cup {ch}
    /\ Len(failure_history'[ch]) = Len(HistoryOf(ch)) + 1
    /\ SubSeq(failure_history'[ch], 1, Len(HistoryOf(ch))) = HistoryOf(ch)
    /\ failure_history'[ch][Len(failure_history'[ch])].post_id = post_id
    /\ failure_history'[ch][Len(failure_history'[ch])].msg \in raisable
    /\ \A c \in DOMAIN failure_history \ {ch} : failure_history'[c] = failure_history[c]

\* C16: send_post_to_channel returns True exactly when its platform call ended without
\* an error, and then report_success and record_success(channel) have been called; when
\* the platform call fails, record_failure(channel, err, post id) is called exactly once
\* and False is returned.
C16_ReturnMatchesPlatformCall ==
    [][\A t \in Tasks :
          /\ PlatformCallEnds(t)
                => /\ pc'[t] = "done"
                   /\ res'[t] = (mainRes'[<<tpost[t], tch[t]>>] = "ok")
                   /\ res'[t] => SuccessPathTaken(tch[t])
                   /\ ~res'[t] => FailureRecordedOnce(tch[t], tpost[t])
          /\ (pc[t] = "start" /\ pc'[t] = "done") => ~res'[t]]_vars

\* C16 witness: one call has returned True and one, for the other channel, False after a
\* failed platform call
C16_Witness ==
    \E x, y \in Pairs :
        /\ x[2] # y[2]
        /\ mainRes[x] = "ok" /\ mainRes[y] = "failed"
        /\ platformCalls[x] = 1 /\ platformCalls[y] = 1
        /\ Len(HistoryOf(y[2])) = 1 /\ x[2] \notin DOMAIN failure_history

\* the error of the failure the step has recorded for channel ch
RecordedError(ch) == failure_history'[ch][Len(failure_history'[ch])].msg

\* C17 (as claimed): when the platform call fails, send_post_to_channel calls
\* report_flood_control exactly when classify_error of the error is rate_limit: always
\* for a rate-limit error, never for a permanent or a temporary one.
C17_FloodSignalIffRateLimited ==
    [][\A t \in Tasks :
          (PlatformCallEnds(t) /\ ~res'[t])
          => (FloodSignalled <=> classify_error(RecordedError(tch[t])) = "rate_limit")]_vars

\* the lower-cased text carries one of the markers
HasMarker(error, markers) == \E m \in markers : Contains(error, m)

\* C18: classify_error is a total, deterministic three-way function of the error text:
\* permanent when the lower-cased text carries an unreachable-destination marker,
\* rate_limit when it carries a flood / too-many-requests / retry-after marker and no
\* permanent one, temporary otherwise; the class recorded for a failure depends on its
\* text alone, not on the tracker's state.
C18_ClassifyByMarkers ==
    /\ \A e \in raisable :
          /\ classify_error(e) \in {"permanent", "rate_limit", "temporary"}
          /\ HasMarker(e, PermanentMarkers) => classify_error(e) = "permanent"
          /\ (HasMarker(e, RateLimitMarkers) /\ ~HasMarker(e, PermanentMarkers))
                => classify_error(e) = "rate_limit"
          /\ (~HasMarker(e, RateLimitMarkers) /\ ~HasMarker(e, PermanentMarkers))
                => classify_error(e) = "temporary"
    /\ \A ch \in DOMAIN failure_history : \A i \in DOMAIN failure_history[ch] :
          LET r == failure_history[ch][i]
          IN  /\ HasMarker(r.msg, PermanentMarkers) => r.type = "permanent"
              /\ (HasMarker(r.msg, RateLimitMarkers) /\ ~HasMarker(r.msg, PermanentMarkers))
                    => r.type = "rate_limit"
              /\ (~HasMarker(r.msg, RateLimitMarkers) /\ ~HasMarker(r.msg, PermanentMarkers))
                    => r.type = "temporary"

\* C18 witness: a text with both kinds of marker was recorded as permanent, and an
\* capitalised too-many-requests text as rate_limit, in different tracker states
C18_Witness ==
    /\ "A" \in DOMAIN failure_history /\ "B" \in DOMAIN failure_history
    /\ failure_history["A"][1].msg = ErrForbiddenFlood
    /\ failure_history["A"][1].type = "permanent"
    /\ failure_history["B"][1].msg = ErrTooMany
    /\ failure_history["B"][1].type = "rate_limit"

\* consecutive_failures.get(ch, 0)
FailuresOf(ch) == DictGet(consecutive_failures, ch, 0)

\* the step is a failed platform call of task t, so record_failure runs for its channel
FailureStep(t) == PlatformCallEnds(t) /\ ~res'[t]

\* C19: record_failure(ch, err, post) adds exactly 1 to consecutive_failures[ch] when
\* the error is not temporary and leaves the counters unchanged otherwise; it puts ch on
\* the skip list with the present time exactly when the error is permanent or
\* consecutive_failures[ch] is at least 1 after the update.
C19_RecordFailureEffect ==
    [][\A t \in Tasks :
          FailureStep(t) =>
          LET ch == tch[t]
              class == classify_error(RecordedError(ch))
              after == DictGet(consecutive_failures', ch, 0)
          IN  /\ class # "temporary" => after = FailuresOf(ch) + 1
              /\ class = "temporary" => consecutive_failures' = consecutive_failures
              /\ \A c \in DOMAIN consecutive_failures \ {ch} :
                    consecutive_failures'[c] = consecutive_failures[c]
              /\ (class = "permanent" \/ after >= 1)
                    => skip_list' = DictSet(skip_list, ch, now)
              /\ ~(class = "permanent" \/ after >= 1) => skip_list' = skip_list]_vars

\* C19 witness: a second rate-limit failure of a channel, after its skip window ran out,
\* has taken its counter from 1 to 2 and put it on the skip list with the present time
C19_Witness ==
    \E ch \in DOMAIN failure_history :
        /\ Len(failure_history[ch]) = 2
        /\ failure_history[ch][2].type = "rate_limit"
        /\ failure_history[ch][2].time = now
        /\ FailuresOf(ch) = 2
        /\ ch \in DOMAIN skip_list /\ skip_list[ch] = now
        /\ failure_history[ch][1].time < now

\* C20 (as claimed): a temporary failure never escalates the skip state: record_failure
\* with an error classified temporary leaves the skip list (members and time stamps)
\* and consecutive_failures as they were and only appends to the failure history.
C20_TransientLeavesSkipState ==
    [][\A t \in Tasks :
          (FailureStep(t) /\ classify_error(RecordedError(tch[t])) = "temporary")
          => /\ skip_list' = skip_list
             /\ consecutive_failures' = consecutive_failures]_vars

---------------------------------------------------------------------------
(* Properties of the failure tracker (specifications SpecStreak and SpecTrack). *)

\* every failure recorded for the channel was classified temporary
AllTransient(ch) ==
    \A i \in DOMAIN HistoryOf(ch) : HistoryOf(ch)[i].type = "temporary"

\* C21: a channel whose recorded failures are all temporary, however many, is never
\* on the skip list: after each of them needs_alert is false, should_skip is false
\* (as computed and as returned by the call), and its failure counter has not moved.
C21_TransientNeverSkips ==
    \A ch \in Channels :
        AllTransient(ch) =>
            /\ ~needs_alert(ch)
            /\ ~should_skip(ch)
            /\ ch \notin DOMAIN skip_list
            /\ FailuresOf(ch) = 0
            /\ (lastOp.ch = ch /\ lastOp.op \in {"should_skip", "needs_alert"})
                  => lastOp.ret = FALSE

\* C21 witness: five temporary failures and nothing else have been recorded for a
\* channel, and should_skip has just answered False for it
C21_Witness ==
    /\ Len(HistoryOf(StreakChannel)) >= 5
    /\ AllTransient(StreakChannel)
    /\ lastOp = [op |-> "should_skip", ch |-> StreakChannel, ret |-> FALSE]

\* C22: after record_success(ch) the channel's failure counter is 0 and the channel is
\* not on the skip list, whatever the counter and the skip list were before; calling
\* record_success(ch) once more would leave the tracker exactly as it is.
C22_SuccessResets ==
    lastOp.op = "record_success" =>
        LET ch == lastOp.ch
        IN  /\ ch \in DOMAIN consecutive_failures
            /\ consecutive_failures[ch] = 0
            /\ ch \notin DOMAIN skip_list
            /\ CountAfterSuccess(ch) = consecutive_failures
            /\ SkipAfterSuccess(ch) = skip_list

\* C22 witness: record_success has just been called for a channel with two counted
\* failures on record, and its counter is 0
C22_Witness ==
    /\ lastOp.op = "record_success"
    /\ Len(HistoryOf(lastOp.ch)) = 2
    /\ \A i \in 1..2 : HistoryOf(lastOp.ch)[i].type # "temporary"
    /\ FailuresOf(lastOp.ch) = 0

\* the latest failure recorded for the channel
LastRecord(ch) == HistoryOf(ch)[Len(HistoryOf(ch))]

\* the latest tracker call recorded a permanent failure of ch, and no time has passed
JustFailedPermanently(ch) ==
    /\ lastOp.op = "record_failure" /\ lastOp.ch = ch
    /\ LastRecord(ch).type = "permanent"
    /\ LastRecord(ch).time = now

\* C23: should_skip(ch) called right after a record_failure on ch with a permanent
\* error returns True, and should_skip returns False for every channel for which no
\* failure has been recorded.
C23_SkipAfterPermanent ==
    /\ [](\A ch \in Channels :
            /\ JustFailedPermanently(ch) => should_skip(ch)
            /\ HistoryOf(ch) = <<>> => ~should_skip(ch)
            /\ (lastOp.op = "should_skip" /\ lastOp.ch = ch /\ HistoryOf(ch) = <<>>)
                  => lastOp.ret = FALSE)
    /\ [][\A ch \in Channels :
            (JustFailedPermanently(ch) /\ lastOp'.op = "should_skip" /\ lastOp'.ch = ch)
            => lastOp'.ret = TRUE]_vars

\* C23 witness: should_skip has answered True for a channel whose only failure is a
\* permanent one recorded at the present time, while the other channel has no failure
C23_Witness ==
    \E ch \in Channels :
        /\ lastOp = [op |-> "should_skip", ch |-> ch, ret |-> TRUE]
        /\ Len(HistoryOf(ch)) = 1
        /\ LastRecord(ch).type = "permanent"
        /\ LastRecord(ch).time = now
        /\ \E other \in Channels \ {ch} : HistoryOf(other) = <<>>

\* the length of a skip window, in ticks
SkipWindow == skip_duration_minutes * 60 * TicksPerSecond

\* the step is a should_skip call that changes something (its answer is in lastOp')
SkipChecked == lastOp' # lastOp /\ lastOp'.op = "should_skip"

\* C24: within one skip episode of a channel (from the record_failure that puts it on
\* the skip list, with no further record_failure or record_success and no clearing by
\* the operator), should_skip returns True at every time before skip start + 5 minutes
\* and False from then on; the first expired check removes the entry, a check in time
\* leaves it alone; the start of the episode is moved by record_failure only, so that
\* after a False answer the channel stays off the skip list until the next failure.
C24_SkipEpisode ==
    /\ []((lastOp.op = "should_skip" /\ ~lastOp.ret) => lastOp.ch \notin DOMAIN skip_list)
    /\ []((lastOp.op = "should_skip" /\ lastOp.ret) => lastOp.ch \in DOMAIN skip_list)
    /\ [][SkipChecked =>
            LET ch == lastOp'.ch
            IN  IF ch \in DOMAIN skip_list
                THEN /\ lastOp'.ret <=> (now < skip_list[ch] + SkipWindow)
                     /\ lastOp'.ret => skip_list' = skip_list
                     /\ ~lastOp'.ret => skip_list' = DictDel(skip_list, ch)
                ELSE /\ ~lastOp'.ret
                     /\ skip_list' = skip_list]_vars
    /\ [][\A ch \in DOMAIN skip_list' :
            (ch \notin DOMAIN skip_list \/ skip_list'[ch] # skip_list[ch])
            => lastOp'.op = "record_failure" /\ lastOp'.ch = ch]_vars

\* C24 witness: a should_skip call made exactly five minutes after the failure that put
\* the channel on the skip list has answered False and removed the entry
C24_Witness ==
    \E ch \in Channels :
        /\ lastOp = [op |-> "should_skip", ch |-> ch, ret |-> FALSE]
        /\ HistoryOf(ch) # <<>>
        /\ LastRecord(ch).type # "temporary"
        /\ now = LastRecord(ch).time + SkipWindow
        /\ ch \notin DOMAIN skip_list
        /\ FailuresOf(ch) >= 1

---------------------------------------------------------------------------
(* Properties of the failure notifications and of the skip list in the dispatcher. *)

\* the notification the step has issued
Issued == notifications'[Len(notifications')]

\* C25 (as claimed): within one failure streak of a channel (since its latest
\* successful send) no two failure notifications are issued at the same
\* consecutive-failure count, whatever the kinds of the failures.
C25_NoRepeatedNotification ==
    [][Len(notifications') > Len(notifications)
          => Issued.count \notin noted[Issued.ch]]_vars

\* the step issues the notification that offers the operator the actions
EscalationIssued(ch) ==
    /\ Len(notifications') > Len(notifications)
    /\ Issued.level = "actions"
    /\ Issued.ch = ch

\* C26 (as claimed): the notification with the actionable options is issued for a
\* channel exactly in the step in which needs_alert(channel) becomes true, that is when
\* its consecutive failures first reach alert_threshold, and at no lower count.
C26_EscalationAtThreshold ==
    [][\A ch \in Channels :
          EscalationIssued(ch) <=> (~needs_alert(ch) /\ needs_alert(ch)')]_vars

\* the channels record_failure or record_success has been called for
KnownChannels == DOMAIN failure_history \cup DOMAIN consecutive_failures

\* the lists of the health report a channel appears in
ListsOf(ch) == {k \in {"healthy", "warning", "critical"} : ch \in get_health_report[k]}

\* C27 (as claimed): get_health_report partitions the known channels: every channel
\* record_failure or record_success was called for is in exactly one of healthy
\* (counter 0), warning (0 < counter < alert_threshold) and critical (counter >=
\* alert_threshold), and the report's skip list is the current skip list.
C27_HealthReportPartitions ==
    /\ \A ch \in KnownChannels :
          /\ Cardinality(ListsOf(ch)) = 1
          /\ ch \in get_health_report.healthy <=> FailuresOf(ch) = 0
          /\ ch \in get_health_report.warning
                <=> (0 < FailuresOf(ch) /\ FailuresOf(ch) < alert_threshold)
          /\ ch \in get_health_report.critical <=> FailuresOf(ch) >= alert_threshold
    /\ get_health_report.skip_list = DOMAIN skip_list

\* a batch of three posts has returned within one skip window: channel B failed with a
\* permanent error on post 1 and every send to channel A succeeded
PermanentOnFirstPost ==
    /\ bpc = "returned" /\ result.kind = "BatchResult"
    /\ Len(posts) = 3
    /\ mainRes[<<1, "B">>] = "failed"
    /\ HistoryOf("B")[1].type = "permanent"
    /\ \A p \in PostIds : mainRes[<<p, "A">>] = "ok"
    /\ result.time_taken < SkipWindow

\* what the batch did for channel B after its failure: nothing was sent and no rate
\* token was taken for posts 2 and 3, and B is on the skip list when the batch ends
SkippedAfterFirstPost ==
    /\ platformCalls[<<2, "B">>] = 0 /\ platformCalls[<<3, "B">>] = 0
    /\ mainRes[<<2, "B">>] = "skipped" /\ mainRes[<<3, "B">>] = "skipped"
    /\ Len(grants) = 4
    /\ "B" \in DOMAIN skip_list

\* C28 (as claimed): in a batch of 3 posts to channels A and B where B fails with a
\* permanent error on post 1 and A always succeeds, no platform call and no rate token
\* is spent on B for posts 2 and 3, B is on the skip list when the batch ends, and the
\* failed_count of the result is 2.
C28_SkippedBatchCountsTwo ==
    PermanentOnFirstPost => (SkippedAfterFirstPost /\ result.failed_count = 2)

\* a permanent failure is on record for the channel
FailedPermanently(ch) ==
    \E i \in DOMAIN HistoryOf(ch) : HistoryOf(ch)[i].type = "permanent"

RecordsKept ==
    \A ch \in DOMAIN failure_history :
        /\ ch \in DOMAIN failure_history'
        /\ Len(failure_history'[ch]) >= Len(failure_history[ch])
        /\ SubSeq(failure_history'[ch], 1, Len(failure_history[ch])) = failure_history[ch]

\* the step appends one record of a failure at the present time to the history of ch
OneRecordAppended(ch) ==
    LET record == failure_history'[ch][Len(failure_history'[ch])]
    IN  /\ failure_history' = DictSet(failure_history, ch, Append(HistoryOf(ch), record))
        /\ DOMAIN record = {"type", "msg", "post_id", "time"}
        /\ record.msg \in TrackErrors
        /\ record.type = classify_error(record.msg)
        /\ record.post_id \in PostIds
        /\ record.time = now

\* C30: the failure history is append-only: record_failure, for an error of any kind,
\* appends exactly one record {type, msg, post_id, time} to the list of its channel,
\* and no call (record_success, should_skip, clear_skip_list, remove_from_skip_list,
\* the queries) removes or alters a record.
C30_HistoryAppendOnly ==
    [][/\ RecordsKept
       /\ failure_history' # failure_history
             => (lastOp'.op = "record_failure" /\ OneRecordAppended(lastOp'.ch))
       /\ (lastOp' # lastOp /\ lastOp'.op = "record_failure")
             => OneRecordAppended(lastOp'.ch)]_vars

\* C30 witness: two failures of a channel recorded five minutes apart are both still on
\* record after a success of the channel and a clearing of the skip list
C30_Witness ==
    /\ lastOp.op = "clear_skip_list"
    /\ \E ch \in DOMAIN consecutive_failures :
          /\ Len(HistoryOf(ch)) = 2
          /\ HistoryOf(ch)[2].time = HistoryOf(ch)[1].time + SkipWindow
          /\ consecutive_failures[ch] = 0

---------------------------------------------------------------------------
(* The batch and the limiter under the scheduling of the event loop: a task that can *)
(* run is run, a sleep ends when its time has come, and an awaited platform call     *)
(* returns or raises.                                                                *)

\* the clock goes on to the end of the next sleep, however long the behaviour has been
WakeTick ==
    /\ cpu = NoTask
    /\ Sleepers # {}
    /\ \A t \in Tasks : ~Ready(t)
    /\ \E t \in Sleepers : (\A u \in Sleepers : wake[t] <= wake[u]) /\ now' = wake[t]
    /\ UNCHANGED <<ticks, stopped, raisable>>
    /\ UNCHANGED <<rlVars, trVars, sndVars, taskVars, batVars, histSend, histRL>>
    /\ UNCHANGED <<histAdapt, noted, histTrack, swVars>>

\* the steps of send_batch_to_all_channels itself, once it has been called
BatchStep ==
    \/ BatchLoop
    \/ BatchCollect
    \/ BatchRetryCheck
    \/ BatchRetryLoop
    \/ BatchRetryDone
    \/ BatchSummary

\* the steps of task t the event loop takes by itself
TaskStep(t) == SendStart(t) \/ AcquireStep(t) \/ PlatformCall(t)

\* the awaited platform call of task t is answered
PlatformAnswers(t) == SendOk(t) \/ SendErr(t)

\* the errors the platform raises here: a temporary one, which the retry pass sends again
InitLive ==
    /\ posts = TwoPosts
    /\ Quiet
    /\ raisable = {ErrTimedOut}
    /\ \E cfg \in RLConfigs : Constructed(cfg[1], cfg[2], cfg[3])

\* either the limiter is called directly, by two tasks for any destinations, or a batch
\* is sent; the stop flag may be set at any moment
NextLive ==
    \/ \E t \in Callers, c \in Channels : bpc = "idle" /\ CallAcquire(t, c)
    \/ ncalls = 0 /\ BatchCall
    \/ BatchStep
    \/ \E t \in Tasks : TaskStep(t)
    \/ \E t \in Tasks : PlatformAnswers(t)
    \/ SetStop
    \/ WakeTick

Fairness ==
    /\ WF_vars(BatchStep)
    /\ \A t \in Tasks : WF_vars(TaskStep(t))
    /\ \A t \in Tasks : WF_vars(PlatformAnswers(t))
    /\ WF_vars(WakeTick)

SpecLive == InitLive /\ [][NextLive]_vars /\ Fairness

---------------------------------------------------------------------------
(* ParallelSender.process_deferred_retries: the sweep over the channels whose skip   *)
(* window has run out, run while a direct send_post_to_channel call may be under way. *)

\* get_expired_skip_channels: the channels of the list it returns
get_expired_skip_channels ==
    {ch \in DOMAIN skip_list : (now - skip_list[ch]) >= skip_duration_minutes * 60 * TicksPerSecond}

\* the lists with the elements of S, each once: the list is in the order of the dict
ListsOfSet(S) ==
    {q \in [1..Cardinality(S) -> S] : \A i, j \in 1..Cardinality(S) : q[i] = q[j] => i = j}

\* the id of a post whose row is no longer in the posts table
DeletedPost == 4

\* SELECT DISTINCT post_id FROM channel_failures ... LIMIT 5: what the table may hold
FailedPostLists ==
    {<<>>, <<posts[1]>>, <<posts[2], posts[1]>>, <<DeletedPost, posts[2]>>}

\* variant: a failed send does not end the posts of its channel
SweepGoesOn(ok) == TRUE

\* lines 343-348: after a failed send, `break` leaves the posts of this channel
SweepContinues(ok) == ok

\* lines 306-315: process_deferred_retries is called; it returns at once without work
CallSweep ==
    /\ bpc = "idle" /\ cpu = NoTask /\ pc[BatchTask] = "idle"
    /\ \E list \in ListsOfSet(get_expired_skip_channels) :
          /\ expired_channels' = list
          /\ IF list = <<>>
             THEN bpc' = "sw_returned" /\ cpu' = NoTask
             ELSE bpc' = "sw_channel" /\ cpu' = BatchTask
    /\ sci' = 1
    /\ UNCHANGED <<failed_posts, spi>>
    /\ UNCHANGED <<bi, start_time, failed_sends, messages_sent, ri, retry_success, result, posts_table, posts>>
    /\ UNCHANGED <<rlVars, trVars, sndVars, pc, tch, tpost, res, wake, envVars, histSend, histRL>>
    /\ UNCHANGED <<histAdapt, noted, histTrack>>

\* lines 322-330: the next channel of the list; its failed posts are read
SweepChannel ==
    /\ bpc = "sw_channel" /\ cpu = BatchTask
    /\ IF sci > Len(expired_channels)
       THEN /\ bpc' = "sw_returned"
            /\ cpu' = NoTask
            /\ UNCHANGED <<failed_posts, spi>>
       ELSE /\ \E list \in FailedPostLists : failed_posts' = list
            /\ spi' = 1
            /\ bpc' = "sw_post"
            /\ UNCHANGED cpu
    /\ UNCHANGED <<expired_channels, sci>>
    /\ UNCHANGED <<bi, start_time, failed_sends, messages_sent, ri, retry_success, result, posts_table, posts>>
    /\ UNCHANGED <<rlVars, trVars, sndVars, pc, tch, tpost, res, wake, envVars, histSend, histRL>>
    /\ UNCHANGED <<histAdapt, noted, histTrack>>

\* lines 332-343: the next failed post; if its row is there it is sent
SweepPost ==
    /\ bpc = "sw_post" /\ cpu = BatchTask
    /\ IF spi > Len(failed_posts)
       THEN /\ sci' = sci + 1
            /\ bpc' = "sw_channel"
            /\ UNCHANGED <<spi, pc, tch, tpost, sendCalls, retryRes>>
       ELSE IF failed_posts[spi] \in DOMAIN posts_table
       THEN /\ bpc' = "sw_wait"
            /\ pc' = [pc EXCEPT ![BatchTask] = "start"]
            /\ tch' = [tch EXCEPT ![BatchTask] = expired_channels[sci]]
            /\ tpost' = [tpost EXCEPT ![BatchTask] = failed_posts[spi]]
            /\ sendCalls' = [sendCalls EXCEPT ![<<failed_posts[spi], expired_channels[sci]>>].retry = @ + 1]
            /\ retryRes' = [retryRes EXCEPT ![<<failed_posts[spi], expired_channels[sci]>>] = "called"]
            /\ UNCHANGED <<sci, spi>>
       ELSE /\ spi' = spi + 1
            /\ UNCHANGED <<bpc, sci, pc, tch, tpost, sendCalls, retryRes>>
    /\ UNCHANGED <<expired_channels, failed_posts>>
    /\ UNCHANGED <<bi, start_time, failed_sends, messages_sent, ri, retry_success, result, posts_table, posts>>
    /\ UNCHANGED <<rlVars, trVars, sndVars, res, wake, cpu, envVars, mainRes, platformCalls, histRL>>
    /\ UNCHANGED <<histAdapt, noted, histTrack>>

\* lines 343-348: the send returned
SweepSent ==
    /\ bpc = "sw_wait" /\ cpu = BatchTask
    /\ pc[BatchTask] \in {"done", "raised"}
    /\ IF pc[BatchTask] = "raised"
       THEN /\ bpc' = "aborted"
            /\ cpu' = NoTask
            /\ UNCHANGED <<sci, spi, pc, tpost>>
       ELSE /\ IF SweepContinues(res[BatchTask])
               THEN spi' = spi + 1 /\ bpc' = "sw_post" /\ UNCHANGED sci
               ELSE sci' = sci + 1 /\ bpc' = "sw_channel" /\ UNCHANGED spi
            /\ pc' = [pc EXCEPT ![BatchTask] = "idle"]
            /\ tpost' = [tpost EXCEPT ![BatchTask] = NoPost]
            /\ UNCHANGED cpu
    /\ UNCHANGED <<expired_channels, failed_posts>>
    /\ UNCHANGED <<bi, start_time, failed_sends, messages_sent, ri, retry_success, result, posts_table, posts>>
    /\ UNCHANGED <<rlVars, trVars, sndVars, tch, res, wake, envVars, histSend, histRL>>
    /\ UNCHANGED <<histAdapt, noted, histTrack>>

\* the tasks that send here: a direct caller and the sweep
SweepSenders == {"g1", BatchTask}

InitSweep ==
    /\ posts = TwoPosts
    /\ Quiet
    /\ raisable = {ErrForbidden}
    /\ Constructed(10, 2, 1)

NextSweep ==
    \/ \E p \in PostIds, c \in Channels : CallSend("g1", p, c)
    \/ SendReturn("g1")
    \/ CallSweep
    \/ SweepChannel
    \/ SweepPost
    \/ SweepSent
    \/ \E t \in SweepSenders : SendStart(t)
    \/ \E t \in SweepSenders : SendAcquire(t)
    \/ \E t \in SweepSenders : PlatformCall(t)
    \/ \E t \in SweepSenders : SendOk(t)
    \/ \E t \in SweepSenders : SendErr(t)
    \/ SendTick

SpecSweep == InitSweep /\ [][NextSweep]_vars

---------------------------------------------------------------------------
(* Properties of the retry pass, of the stop flag and of the batch's summary. *)

\* the kind of the failure recorded first for post p on channel c: the one of the main pass
MainFailureType(p, c) ==
    LET recorded == {i \in DOMAIN HistoryOf(c) : HistoryOf(c)[i].post_id = p}
    IN  IF recorded = {} THEN "none"
        ELSE HistoryOf(c)[CHOOSE i \in recorded : \A j \in recorded : i <= j].type

\* C31 (as claimed): when a batch has returned with the stop flag unset, every
\* (post, channel) pair whose send of the main pass failed with a temporary error has
\* been sent again exactly once in the retry pass: one more platform call, not a skip.
C31_TransientRetriedOnce ==
    (bpc = "returned" /\ ~stopped) =>
        \A x \in Pairs :
            (mainRes[x] = "failed" /\ MainFailureType(x[1], x[2]) = "temporary")
            => /\ retryRes[x] \in {"ok", "failed"}
               /\ sendCalls[x].retry = 1
               /\ platformCalls[x] = 2

\* the channels the main pass has sent post p to
SentInMainPass(p) == {c \in Channels : mainRes[<<p, c>>] = "ok"}

\* a send that is under way ends by returning, never by being cancelled
NotInterrupted ==
    \A t \in GatherSet : (pc[t] \notin {"idle", "done"}) => pc'[t] # "idle"

\* the step ends the gather of the current post: every send has returned, and the post
\* is marked as sent with the number of its successful sends
CurrentPostPersisted ==
    (bpc = "gather" /\ bpc' # "gather") =>
        /\ \A c \in Channels : mainRes'[<<posts[bi], c>>] \in Outcomes
        /\ posts_table'[posts[bi]].posted
        /\ posts_table'[posts[bi]].successful_posts =
               Cardinality({c \in Channels : mainRes'[<<posts[bi], c>>] = "ok"})

\* no send is made for a post the main pass has not started yet
NoNewPostStarted ==
    \A x \in Pairs :
        mainRes[x] = "none" =>
            /\ mainRes'[x] = "none"
            /\ sendCalls'[x] = sendCalls[x]
            /\ platformCalls'[x] = 0

\* C32: when the stop flag is set while the sends of post k are in flight, none of
\* these sends is interrupted, post k is marked as sent with its success count, and no
\* send for post k+1 or a later post is started.
C32_StopLetsCurrentPostFinish ==
    [][stopped => (NotInterrupted /\ CurrentPostPersisted /\ NoNewPostStarted)]_vars

\* C32 witness: the stop flag was set while the sends of post 1 were in flight; both
\* sends succeeded, post 1 is marked with 2 successes and post 2 was never started
C32_Witness ==
    /\ stopped /\ bpc = "returned" /\ result.kind = "BatchResult"
    /\ messages_sent = NChannels
    /\ posts_table[posts[1]].posted /\ posts_table[posts[1]].successful_posts = 2
    /\ ~posts_table[posts[2]].posted
    /\ \A c \in Channels : mainRes[<<posts[2], c>>] = "none" /\ platformCalls[<<posts[2], c>>] = 0


---------------------------------------------------------------------------
(* Properties of the limiter's locks (specification SpecRL). *)

\* the locks task t holds or queues for
HoldsGlobalLock(t) == global_lock.holder = t
HoldsChatLock(t, c) == c \in DOMAIN chat_locks /\ chat_locks[c].holder = t
QueuesForGlobalLock(t) == \E i \in DOMAIN global_lock.waiters : global_lock.waiters[i] = t
QueuesForChatLock(t, c) ==
    c \in DOMAIN chat_locks /\ \E i \in DOMAIN chat_locks[c].waiters : chat_locks[c].waiters[i] = t

\* a task inside acquire_chat has left the global lock and touches its own destination only
ChatSectionHoldsOwnLockOnly ==
    \A t \in Tasks :
        pc[t] \in {"c_enter", "c_wait", "c_body", "c_sleep"} =>
            /\ ~HoldsGlobalLock(t) /\ ~QueuesForGlobalLock(t)
            /\ \A c \in Channels \ {tch[t]} : ~HoldsChatLock(t, c) /\ ~QueuesForChatLock(t, c)

\* a task that queues waits for the global lock, held by a task inside acquire_global, or
\* for the lock of its own destination, held by a task that asked for the same destination
DelayedByOwnGatesOnly ==
    \A u \in Tasks :
        /\ pc[u] = "g_wait" =>
              /\ QueuesForGlobalLock(u)
              /\ \A c \in Channels : ~QueuesForChatLock(u, c)
              /\ global_lock.holder # NoTask => global_lock.holder \in InGlobalBucket
        /\ pc[u] = "c_wait" =>
              /\ QueuesForChatLock(u, tch[u])
              /\ chat_locks[tch[u]].holder # NoTask =>
                     chat_locks[tch[u]].holder \in InChatBucket(tch[u])

\* C33: a task that sleeps for a token of destination A holds neither the global lock
\* nor the lock of another destination, so that an acquire for destination B waits only
\* at the global gate and at B's own bucket.
C33_SleeperBlocksOwnDestinationOnly ==
    ChatSectionHoldsOwnLockOnly /\ DelayedByOwnGatesOnly

\* C33 witness: a task sleeps for a token of one destination while another task, which
\* has not slept in this call, is inside the bucket of another destination
C33_Witness ==
    \E t, u \in Tasks :
        /\ pc[t] = "c_sleep" /\ wake[t] > now
        /\ pc[u] = "c_body" /\ tch[u] # tch[t] /\ ~slept[u]
        /\ HoldsChatLock(t, tch[t]) /\ HoldsChatLock(u, tch[u])
        /\ global_lock.holder = NoTask


---------------------------------------------------------------------------
(* Properties of the deferred-retry sweep (specification SpecSweep). *)

\* the elements of a list
Elements(list) == {list[i] : i \in DOMAIN list}

\* the step is the call of process_deferred_retries, with its get_expired_skip_channels
SweepCalled == bpc = "idle" /\ bpc' \in {"sw_channel", "sw_returned"}

\* the list returned holds, each once, the listed channels whose window has run out
\* (those should_skip no longer answers True for), and the tracker is left as it was
ExpiredListReturned ==
    SweepCalled =>
        /\ Elements(expired_channels') = {ch \in DOMAIN skip_list : ~should_skip(ch)}
        /\ Len(expired_channels') = Cardinality(Elements(expired_channels'))
        /\ \A ch \in Elements(expired_channels') :
              now - skip_list[ch] >= skip_duration_minutes * 60 * TicksPerSecond
        /\ UNCHANGED trVars

\* the sends of the sweep that failed, for channel c
SweepFailures(c) == {p \in PostIds : retryRes[<<p, c>>] \in {"failed", "skipped"}}

\* the sweep sends to channels of its list only, and a channel is left at its first
\* failed send: no channel has two failed sends, and the channel of a failed send is
\* behind the sweep
SweepKeepsToList ==
    /\ \A x \in Pairs : sendCalls[x].retry > 0 => x[2] \in Elements(expired_channels)
    /\ \A c \in Channels :
          /\ Cardinality(SweepFailures(c)) <= 1
          /\ (SweepFailures(c) # {} /\ bpc # "sw_wait")
                => \E k \in 1..(sci - 1) : expired_channels[k] = c

\* C34: get_expired_skip_channels returns exactly the channels on the skip list whose
\* window has run out and changes nothing in the tracker; the sweep sends only to the
\* channels of that list and gives a channel up at its first failed send.
C34_SweepOverExpiredChannels ==
    /\ []SweepKeepsToList
    /\ [][ExpiredListReturned]_vars

\* C34 witness: the sweep has returned; for its last channel it had two failed posts
\* to send, the send of the first one failed and the second one was not sent
C34_Witness ==
    /\ bpc = "sw_returned" /\ expired_channels # <<>>
    /\ failed_posts = <<posts[2], posts[1]>>
    /\ LET c == expired_channels[Len(expired_channels)]
       IN  /\ retryRes[<<posts[2], c>>] = "failed"
           /\ sendCalls[<<posts[1], c>>].retry = 0


\* the step awaits the platform call of task t
PlatformCallBegins(t) == pc[t] = "call" /\ pc'[t] = "sending"

\* C35 (as claimed): no platform call is made to a channel that is on the skip list
\* with its window still running, however the concurrent sends to one channel interleave.
C35_NoCallToSkippedChannel ==
    [][\A t \in Tasks : PlatformCallBegins(t) => ~should_skip(tch[t])]_vars


---------------------------------------------------------------------------
(* The skip list against the failure counts. *)

\* C36: every channel on the skip list has at least one consecutive failure counted
\* and at least one record in its failure history.
C36_SkippedChannelHasFailed ==
    \A ch \in DOMAIN skip_list :
        /\ FailuresOf(ch) >= 1
        /\ HistoryOf(ch) # <<>>

\* C36 witness: one channel is on the skip list after a failure that was counted, and
\* the other one has a failure counted and a record in its history without being on
\* the list (the converse does not hold)
C36_Witness ==
    \E ch, other \in Channels :
        /\ ch \in DOMAIN skip_list /\ FailuresOf(ch) >= 1
        /\ other \notin DOMAIN skip_list /\ FailuresOf(other) >= 1 /\ HistoryOf(other) # <<>>


---------------------------------------------------------------------------
(* Termination (specification SpecLive). *)

\* the positions of a task inside rate_limiter.acquire
InAcquire == {"g_enter", "g_wait", "g_body", "g_sleep", "c_enter", "c_wait", "c_body", "c_sleep"}

\* no task holds the global lock and the lock of a destination at once
NeverBothLocks ==
    \A t \in Tasks : ~(HoldsGlobalLock(t) /\ \E c \in Channels : HoldsChatLock(t, c))

\* a lock that has waiters goes to the one that has waited longest
LocksAreFifo ==
    /\ (global_lock'.holder # global_lock.holder /\ global_lock.waiters # <<>>)
          => global_lock'.holder \in {NoTask, Head(global_lock.waiters)}
    /\ \A c \in DOMAIN chat_locks :
          (chat_locks'[c].holder # chat_locks[c].holder /\ chat_locks[c].waiters # <<>>)
             => chat_locks'[c].holder \in {NoTask, Head(chat_locks[c].waiters)}

\* C37: every acquire call returns and the batch terminates: the two locks are never
\* held at once by one task, a lock goes to its waiters in their order, and every
\* wait is finite.
C37_AcquireReturnsBatchTerminates ==
    /\ []NeverBothLocks
    /\ [][LocksAreFifo]_vars
    /\ \A t \in Tasks : (pc[t] \in InAcquire) ~> (pc[t] \notin InAcquire)
    /\ (bpc # "idle") ~> (bpc = "returned")

\* C37 witness: the batch has returned its summary after a task had to sleep for a token
\* and the clock has gone on beyond the advances counted by ticks
C37_Witness ==
    /\ bpc = "returned" /\ result.kind = "BatchResult"
    /\ \E t \in Tasks : slept[t]
    /\ now > 1 /\ ticks = 0


---------------------------------------------------------------------------
(* Properties of what is persisted and of the summary. *)

\* a post that is marked as sent keeps its row as it is
MarkedRowKept ==
    \A p \in PostIds : posts_table[p].posted => posts_table'[p] = posts_table[p]

\* C38: the success count persisted with a post is the number of channels whose send
\* in the main pass returned True; the post is marked as sent also when that number is
\* 0, and a success of the retry pass does not change it.
C38_SuccessCountOfMainPass ==
    /\ [](\A p \in PostIds :
             posts_table[p].posted =>
                /\ \A c \in Channels : mainRes[<<p, c>>] \in Outcomes
                /\ posts_table[p].successful_posts = Cardinality(SentInMainPass(p)))
    /\ [][MarkedRowKept]_vars

\* C38 witness: the batch has returned; a post is marked as sent with 0 successes
\* although the retry pass has sent it to a channel
C38_Witness ==
    /\ bpc = "returned"
    /\ \E p \in PostIds :
          /\ posts_table[p].posted /\ posts_table[p].successful_posts = 0
          /\ \E c \in Channels : retryRes[<<p, c>>] = "ok"


\* the pairs whose send in the main pass returned False, the skipped ones included
FailedInMainPass == {x \in Pairs : mainRes[x] \in {"failed", "skipped"}}

\* send_post_to_channel calls made in the main pass
MainPassCalls == SumMain(Pairs)

\* the counts of the failures and of the retries in the summary
SummaryCountsFailures ==
    result.kind = "BatchResult" =>
        /\ result.failed_count = Cardinality(FailedInMainPass)
        /\ 0 <= result.retry_success /\ result.retry_success <= result.failed_count

\* C39 (as claimed): in every summary returned, failed_count is the number of pairs whose
\* main-pass send returned False, retry_success lies between 0 and failed_count, and
\* total_messages is the number of sends made in the main pass.
C39_SummaryCounts ==
    /\ SummaryCountsFailures
    /\ result.kind = "BatchResult" => result.total_messages = MainPassCalls


---------------------------------------------------------------------------
(* The bucket of a new destination (specification SpecRL). *)

\* the tasks that wait at the gate of destination c: asleep for a token, or queued
\* behind a task that is
WaitingAtChatGate(c) == {t \in Tasks : pc[t] \in {"c_sleep", "c_wait"} /\ tch[t] = c}

\* C40: a destination seen for the first time starts with a full bucket: none of the
\* first per_chat_rate acquire calls for it waits at the destination's gate, whatever
\* the buckets of the other destinations hold.
C40_NewDestinationBucketFull ==
    \A c \in Channels : WaitingAtChatGate(c) # {} => chatCalls[c] > per_chat_rate

\* C40 witness: per_chat_rate calls for a destination have all returned and have used
\* its bucket up, while the bucket of the other destination was empty
C40_Witness ==
    \E c, other \in Channels :
        /\ c # other
        /\ chatCalls[c] = per_chat_rate
        /\ \A t \in Tasks : pc[t] = "idle"
        /\ c \in DOMAIN chat_tokens /\ chat_tokens[c].tokens = 0
        /\ other \in DOMAIN chat_tokens /\ chat_tokens[other].tokens < One
        /\ chat_tokens[other].last_update <= chat_tokens[c].last_update

=============================================================================
